---------------------------- MODULE Spec2Model ----------------------------
(***************************************************************************)
(* A model of the locator containers, of the template search and of the    *)
(* polling loops of rpaframework:                                          *)
(*   packages/core/src/RPA/core/locators/containers.py  (Locator classes)  *)
(*   packages/core/src/RPA/core/locators/templates.py   (find, _fallback)  *)
(*   packages/recognition/src/RPA/recognition/templates.py  (find)         *)
(*   packages/main/src/RPA/Desktop/__init__.py   (wait_for_element)        *)
(*   packages/main/src/RPA/Images.py             (wait_template_on_screen) *)
(*   packages/main/src/RPA/Desktop/new_implementations/locator_helpers.py  *)
(*                                         (determine_search_criteria)     *)
(*                                                                         *)
(* Python values are tagged tuples (<<"int", 5>>, <<"str", chars>>, ...),  *)
(* Python strings are sequences of one-character strings, so that          *)
(* partition/strip/lower/split and the int()/float() coercions are          *)
(* computed character by character.  An image is its size and its          *)
(* row-major RGB pixels, as Pillow's Image.size and Image.getdata(); the   *)
(* search converts them to luminance as ImageOps.grayscale does.           *)
(*                                                                         *)
(* The specifications share the variables.  SpecLocator calls to_dict,     *)
(* from_dict and from_string; SpecEngine calls _fallback and SpecSearch    *)
(* _search_string; SpecFind calls find in the build without                *)
(* RPA.recognition and SpecFindRecognition in the build with it;           *)
(* SpecDesktopFind calls Desktop.find and SpecCriteria                     *)
(* determine_search_criteria; each of these calls is one step from the     *)
(* idle state.  SpecRecognition resumes the generator of the accelerated   *)
(* engine yield by yield; SpecDesktop and SpecImages run the polling       *)
(* loops test by test, attempt by attempt and sleep by sleep.              *)
(***************************************************************************)
EXTENDS Integers, Sequences, FiniteSets

VARIABLES op, arg, data, self, ret, engine, clock, frame

vars == <<op, arg, data, self, ret, engine, clock, frame>>

(***************************************************************************)
(* Bounds of the model.                                                    *)
(***************************************************************************)
\* largest absolute value of an integer written into a locator string
MaxCoord == 12
\* largest number of comma-separated values in a generated locator string
MaxValues == 3
\* largest number of keys, besides `type`, of a caller-made record
MaxKeys == 3
\* largest number of pixels of a haystack given to the engine directly
MaxArea == 5
\* largest number of pixels of a template given to the engine directly
MaxTArea == 2
\* largest number of pixels of an image given to find
FindMaxArea == 4
\* largest number of pixels of a template given to find
FindMaxTArea == 2
\* largest `limit` given to find
MaxLimit == 2
\* largest number of cells of a coefficient map
MaxMapArea == 4
\* largest width and height of the template the accelerated engine is given
MaxTemplateSide == 2
\* largest number of regions taken from one generator of the accelerated engine
MaxYields == 3
\* largest number of regions of the accelerated engine a call of find is
\* compared with
MaxFindYields == 4
\* largest timeout of a polling call, in ticks of the clock
MaxTimeout == 3
\* largest interval of a polling call, in ticks of the clock
MaxInterval == 2
\* largest number of pixels of the screen wait_template_on_screen looks at
MaxScreenArea == 3
\* largest number of attempts followed in one call of wait_template_on_screen
MaxAttempts == 3

\* the longest text and pattern given to _search_string
MaxTextLen == 6

MaxPatternLen == 4

\* the mouse is at 0..MaxMouse in both directions, offsets reach as far
MaxMouse == 2

\* the longest text after the head of a locator given to
\* determine_search_criteria
MaxTail == 3

(***************************************************************************)
(* Python strings and the builtins the code applies to them.               *)
(***************************************************************************)
Digits == <<"0", "1", "2", "3", "4", "5", "6", "7", "8", "9">>

Uppercase == <<"A", "B", "C", "D", "E", "F", "G", "H", "I", "J", "K", "L", "M",
               "N", "O", "P", "Q", "R", "S", "T", "U", "V", "W", "X", "Y", "Z">>

Lowercase == <<"a", "b", "c", "d", "e", "f", "g", "h", "i", "j", "k", "l", "m",
               "n", "o", "p", "q", "r", "s", "t", "u", "v", "w", "x", "y", "z">>

Whitespace == {" ", "\t", "\n"}

IsDigit(c) == \E i \in 1..10 : Digits[i] = c

DigitValue(c) == (CHOOSE i \in 1..10 : Digits[i] = c) - 1

\* str.lower() on one character
LowerChar(c) ==
    IF \E i \in 1..26 : Uppercase[i] = c
    THEN Lowercase[CHOOSE i \in 1..26 : Uppercase[i] = c]
    ELSE c

\* str.lower()
Lower(s) == [i \in 1..Len(s) |-> LowerChar(s[i])]

RECURSIVE LStrip(_)
LStrip(s) ==
    IF s # <<>> /\ Head(s) \in Whitespace THEN LStrip(Tail(s)) ELSE s

RECURSIVE RStrip(_)
RStrip(s) ==
    IF s # <<>> /\ s[Len(s)] \in Whitespace
    THEN RStrip(SubSeq(s, 1, Len(s) - 1))
    ELSE s

\* str.strip()
Strip(s) == RStrip(LStrip(s))

\* index of the first occurrence of character c in s, 0 when there is none
RECURSIVE IndexOf(_, _, _)
IndexOf(s, c, i) ==
    IF i > Len(s) THEN 0
    ELSE IF s[i] = c THEN i
    ELSE IndexOf(s, c, i + 1)

\* str.partition(sep) for a one-character separator: <<head, sep, tail>>,
\* and <<s, "", "">> when the separator does not occur
Partition(s, sep) ==
    LET i == IndexOf(s, sep, 1)
    IN IF i = 0 THEN <<s, <<>>, <<>>>>
       ELSE <<SubSeq(s, 1, i - 1), <<sep>>, SubSeq(s, i + 1, Len(s))>>

\* str.split(sep) for a one-character separator: never empty, "" gives [""]
RECURSIVE Split(_, _)
Split(s, sep) ==
    LET i == IndexOf(s, sep, 1)
    IN IF i = 0 THEN <<s>>
       ELSE <<SubSeq(s, 1, i - 1)>> \o Split(SubSeq(s, i + 1, Len(s)), sep)

\* value of a non-empty sequence of decimal digits
RECURSIVE DigitsValue(_)
DigitsValue(s) ==
    IF s = <<>> THEN 0
    ELSE 10 * DigitsValue(SubSeq(s, 1, Len(s) - 1)) + DigitValue(s[Len(s)])

AllDigits(s) == \A i \in 1..Len(s) : IsDigit(s[i])

\* the sign and the unsigned rest of a stripped numeric literal
SignOf(s) == IF s # <<>> /\ Head(s) = "-" THEN -1 ELSE 1

Unsigned(s) == IF s # <<>> /\ Head(s) \in {"-", "+"} THEN Tail(s) ELSE s

(***************************************************************************)
(* Python values.                                                          *)
(***************************************************************************)
PyNone == <<"NoneType">>

PyInt(n) == <<"int", n>>

PyStr(s) == <<"str", s>>

\* a float with a finite decimal expansion: mantissa * 10^-exponent
PyFloat(m, e) == <<"float", m, e>>

\* pathlib.Path(s): the empty path is the current directory
PyPath(s) == <<"Path", IF s = <<>> THEN <<".">> ELSE s>>

\* truth value of a Python value (`not type_`)
Truthy(v) ==
    CASE v[1] = "NoneType" -> FALSE
      [] v[1] = "int" -> v[2] # 0
      [] v[1] = "float" -> v[2] # 0
      [] v[1] = "str" -> v[2] # <<>>
      [] OTHER -> TRUE

\* int(s) losing the sign
int_unsigned(s) ==
    LET t == Strip(s)
        u == Unsigned(t)
    IN IF u # <<>> /\ AllDigits(u)
       THEN [ok |-> TRUE, value |-> PyInt(DigitsValue(u)), error |-> "none"]
       ELSE [ok |-> FALSE, value |-> PyNone, error |-> "ValueError"]

\* int(s) for a str: surrounding whitespace and a sign are accepted
int(s) ==
    LET t == Strip(s)
        u == Unsigned(t)
    IN IF u # <<>> /\ AllDigits(u)
       THEN [ok |-> TRUE, value |-> PyInt(SignOf(t) * DigitsValue(u)), error |-> "none"]
       ELSE [ok |-> FALSE, value |-> PyNone, error |-> "ValueError"]

RECURSIVE NormFloat(_, _)
NormFloat(m, e) ==
    IF e > 0 /\ m % 10 = 0 THEN NormFloat(m \div 10, e - 1) ELSE PyFloat(m, e)

\* float(s) for a str in plain decimal notation (the generated strings hold
\* no exponent, "inf" or "nan")
float(s) ==
    LET t == Strip(s)
        u == Unsigned(t)
        p == Partition(u, ".")
        whole == p[1]
        frac == p[3]
    IN IF (whole \o frac) # <<>> /\ AllDigits(whole) /\ AllDigits(frac)
       THEN [ok |-> TRUE,
             value |-> NormFloat(SignOf(t) * DigitsValue(whole \o frac), Len(frac)),
             error |-> "none"]
       ELSE [ok |-> FALSE, value |-> PyNone, error |-> "ValueError"]

\* str(n) for an int
RECURSIVE NatToStr(_)
NatToStr(n) ==
    IF n < 10 THEN <<Digits[n + 1]>>
    ELSE NatToStr(n \div 10) \o <<Digits[(n % 10) + 1]>>

IntToStr(n) == IF n < 0 THEN <<"-">> \o NatToStr(-n) ELSE NatToStr(n)

(***************************************************************************)
(* containers.py: the locator classes.                                     *)
(***************************************************************************)
S_image == <<"i", "m", "a", "g", "e">>

S_browser == <<"b", "r", "o", "w", "s", "e", "r">>

S_coordinates == <<"c", "o", "o", "r", "d", "i", "n", "a", "t", "e", "s">>

S_offset == <<"o", "f", "f", "s", "e", "t">>

Classes == {"ImageTemplate", "BrowserDOM", "Coordinates", "Offset"}

\* dataclasses.MISSING, the default of a field declared without one
MISSING == <<"MISSING">>

\* dataclasses.fields(class_): the declared fields in declaration order
fields(class_) ==
    CASE class_ = "ImageTemplate" ->
           <<[name |-> "path", type |-> "Path", default |-> MISSING],
             [name |-> "confidence", type |-> "float", default |-> PyFloat(100, 0)]>>
      [] class_ = "BrowserDOM" ->
           <<[name |-> "strategy", type |-> "str", default |-> MISSING],
             [name |-> "value", type |-> "str", default |-> MISSING],
             [name |-> "source", type |-> "Optional[str]", default |-> PyNone],
             [name |-> "screenshot", type |-> "Optional[Path]", default |-> PyNone]>>
      [] class_ = "Coordinates" ->
           <<[name |-> "x", type |-> "int", default |-> MISSING],
             [name |-> "y", type |-> "int", default |-> MISSING]>>
      [] class_ = "Offset" ->
           <<[name |-> "x", type |-> "int", default |-> MISSING],
             [name |-> "y", type |-> "int", default |-> MISSING]>>

\* typename with Offset answering the typename of Coordinates
typename_dup(class_) ==
    CASE class_ = "ImageTemplate" -> S_image
      [] class_ = "BrowserDOM" -> S_browser
      [] class_ = "Coordinates" -> S_coordinates
      [] class_ = "Offset" -> S_coordinates

\* the typename property of each class
typename(class_) ==
    CASE class_ = "ImageTemplate" -> S_image
      [] class_ = "BrowserDOM" -> S_browser
      [] class_ = "Coordinates" -> S_coordinates
      [] class_ = "Offset" -> S_offset

\* the registry LocatorMeta fills: typename -> class
TYPES ==
    [t \in {typename(c) : c \in Classes} |->
        CHOOSE c \in Classes : typename(c) = t]

\* TYPES.get with a default class in place of None
TYPES_get_default(type_) ==
    IF type_[1] = "str" /\ type_[2] \in DOMAIN TYPES THEN TYPES[type_[2]]
    ELSE "Coordinates"

\* TYPES.get(type_): the class, or "None"
TYPES_get(type_) ==
    IF type_[1] = "str" /\ type_[2] \in DOMAIN TYPES THEN TYPES[type_[2]] ELSE "None"

field_names(class_) == {fields(class_)[i].name : i \in 1..Len(fields(class_))}

\* outcomes of a call
Return(v) ==
    [kind |-> "return", error |-> "none", msg |-> "", detail |-> {}, value |-> v]

Raise(e, m, d) ==
    [kind |-> "raise", error |-> e, msg |-> m, detail |-> d, value |-> <<>>]

NoCall == [kind |-> "none", error |-> "none", msg |-> "", detail |-> {}, value |-> <<>>]

\* a locator instance: its class and its field values
Instance(class_, values) == [class |-> class_, fields |-> values]

\* the generated __init__ called with keyword arguments kw (a function from
\* names to values): unexpected or missing arguments are a TypeError,
\* defaults fill the fields not given
init_kw(class_, kw) ==
    LET fs == fields(class_)
        unexpected == DOMAIN kw \ field_names(class_)
        absent == {fs[i].name : i \in {j \in 1..Len(fs) :
                       fs[j].default = MISSING /\ fs[j].name \notin DOMAIN kw}}
        default(n) == fs[CHOOSE i \in 1..Len(fs) : fs[i].name = n].default
    IN IF unexpected # {}
       THEN Raise("TypeError", "unexpected keyword argument", unexpected)
       ELSE IF absent # {}
       THEN Raise("TypeError", "missing required positional argument", absent)
       ELSE Return(Instance(class_,
                [n \in field_names(class_) |->
                    IF n \in DOMAIN kw THEN kw[n] ELSE default(n)]))

\* the generated __init__ called with positional arguments
init_args(class_, args) ==
    LET fs == fields(class_)
    IN init_kw(class_, [n \in {fs[i].name : i \in 1..Len(args)} |->
                          args[CHOOSE i \in 1..Len(args) : fs[i].name = n]])

\* required without the test for a default
required_all(class_) == field_names(class_)

\* required = set(field.name for field in fields(class_) if field.default is MISSING)

required(class_) ==
    LET fs == fields(class_)
    IN {fs[i].name : i \in {j \in 1..Len(fs) : fs[j].default = MISSING}}

\* kwargs without the filter
kwargs_unfiltered(class_, d) == d

\* kwargs = {k: v for k, v in data.items() if k in required_or_optional}

kwargs(class_, d) ==
    LET required_or_optional == field_names(class_)
    IN [k \in DOMAIN d \cap required_or_optional |-> d[k]]

\* `not type_`
type_missing(type_) == ~Truthy(type_)

\* from_dict reading the type with data.get("type"): the record keeps it
from_dict_get(d) ==
    LET type_ == IF "type" \in DOMAIN d THEN d["type"] ELSE PyNone
        class_ == TYPES_get(type_)
        missing == required(class_) \ DOMAIN d
    IN IF type_missing(type_)
       THEN [ret |-> Raise("ValueError", "Missing locator type field", {}),
             data |-> d]
       ELSE IF class_ = "None"
       THEN [ret |-> Raise("ValueError", "Unknown locator type", type_),
             data |-> d]
       ELSE IF missing # {}
       THEN [ret |-> Raise("ValueError", "Missing locator field(s)", missing),
             data |-> d]
       ELSE [ret |-> init_kw(class_, kwargs(class_, d)), data |-> d]

\* Locator.from_dict(data): the outcome, and data as the call leaves it
from_dict(d) ==
    LET type_ == IF "type" \in DOMAIN d THEN d["type"] ELSE PyNone
        popped == [k \in DOMAIN d \ {"type"} |-> d[k]]
        class_ == TYPES_get(type_)
        missing == required(class_) \ DOMAIN popped
    IN IF type_missing(type_)
       THEN [ret |-> Raise("ValueError", "Missing locator type field", {}),
             data |-> popped]
       ELSE IF class_ = "None"
       THEN [ret |-> Raise("ValueError", "Unknown locator type", type_),
             data |-> popped]
       ELSE IF missing # {}
       THEN [ret |-> Raise("ValueError", "Missing locator field(s)", missing),
             data |-> popped]
       ELSE [ret |-> init_kw(class_, kwargs(class_, popped)), data |-> popped]

\* Locator.to_dict(self): asdict(self) plus the type
to_dict(loc) ==
    [k \in DOMAIN loc.fields \cup {"type"} |->
        IF k = "type" THEN PyStr(typename(loc.class)) ELSE loc.fields[k]]

\* field.type(value) with a failed conversion keeping the text
coerce_lenient(type, value) ==
    CASE type = "int" /\ int(value).ok -> int(value)
      [] type = "float" /\ float(value).ok -> float(value)
      [] type = "Path" -> [ok |-> TRUE, value |-> PyPath(value), error |-> "none"]
      [] OTHER -> [ok |-> TRUE, value |-> PyStr(value), error |-> "none"]

\* field.type(value) for a value of the string
coerce(type, value) ==
    CASE type = "int" -> int(value)
      [] type = "float" -> float(value)
      [] type = "str" -> [ok |-> TRUE, value |-> PyStr(value), error |-> "none"]
      [] type = "Path" -> [ok |-> TRUE, value |-> PyPath(value), error |-> "none"]
      [] OTHER -> \* typing.Optional[...] cannot be instantiated
                  [ok |-> FALSE, value |-> PyNone, error |-> "TypeError"]

\* zip(fields(class_), values): as many pairs as the shorter has
zip_len(class_, values) ==
    IF Len(fields(class_)) < Len(values) THEN Len(fields(class_)) ELSE Len(values)

\* type_.strip().lower()
normalize_type(type_) == Lower(Strip(type_))

\* from_string turning down more values than the class has fields
from_string_strict(text) ==
    LET parts == Partition(text, ":")
        type_ == normalize_type(parts[1])
        class_ == TYPES_get(PyStr(type_))
        values == Split(parts[3], ",")
        n == zip_len(class_, values)
        coerced == [i \in 1..n |-> coerce(fields(class_)[i].type, values[i])]
        failed == {i \in 1..n : ~coerced[i].ok}
        first == CHOOSE i \in failed : \A j \in failed : i <= j
    IN IF class_ = "None"
       THEN Raise("ValueError", "Unknown locator type", PyStr(type_))
       ELSE IF Len(values) > Len(fields(class_))
       THEN Raise("ValueError", "Invalid locator format", {})
       ELSE IF failed # {}
       THEN Raise(coerced[first].error, "coercion failed", {first})
       ELSE init_args(class_, [i \in 1..n |-> coerced[i].value])

\* Locator.from_string(data)
from_string(text) ==
    LET parts == Partition(text, ":")
        type_ == normalize_type(parts[1])
        class_ == TYPES_get(PyStr(type_))
        values == Split(parts[3], ",")
        n == zip_len(class_, values)
        coerced == [i \in 1..n |-> coerce(fields(class_)[i].type, values[i])]
        failed == {i \in 1..n : ~coerced[i].ok}
        first == CHOOSE i \in failed : \A j \in failed : i <= j
    IN IF class_ = "None"
       THEN Raise("ValueError", "Unknown locator type", PyStr(type_))
       ELSE IF failed # {}
       THEN Raise(coerced[first].error, "coercion failed", {first})
       ELSE init_args(class_, [i \in 1..n |-> coerced[i].value])

(***************************************************************************)
(* The inputs of the locator operations.                                   *)
(***************************************************************************)
S_bogus == <<"b", "o", "g", "u", "s">>

S_a_png == <<"a", ".", "p", "n", "g">>

\* values a caller may store in a locator field
FieldValues ==
    {PyInt(-1), PyInt(2), PyStr(<<"a">>), PyNone, PyFloat(855, 1), PyPath(S_a_png)}

\* every instance of the four classes over FieldValues
Locators ==
    UNION {{Instance(c, f) : f \in [field_names(c) -> FieldValues]} : c \in Classes}

\* keys of caller-made records: every declared field name and one undeclared
RecordKeys ==
    {"path", "confidence", "strategy", "value", "source", "screenshot", "x", "y",
     "name"}

RecordValues == {PyInt(2), PyStr(<<"a">>)}

\* values of the `type` key: the typenames, an unregistered one, a typename
\* in another case, and falsy values
TypeValues ==
    {PyStr(S_image), PyStr(S_browser), PyStr(S_coordinates), PyStr(S_offset),
     PyStr(S_bogus), PyStr(<<"I", "m", "a", "g", "e">>), PyStr(<<>>), PyInt(0),
     PyNone}

UntypedRecords ==
    UNION {[K -> RecordValues] :
             K \in {S \in SUBSET RecordKeys : Cardinality(S) <= MaxKeys}}

WithType(r, t) == [k \in DOMAIN r \cup {"type"} |-> IF k = "type" THEN t ELSE r[k]]

Records == UntypedRecords \cup {WithType(r, t) : r \in UntypedRecords, t \in TypeValues}

RECURSIVE Join(_, _)
Join(values, sep) ==
    IF Len(values) = 1 THEN values[1]
    ELSE values[1] \o <<sep>> \o Join(Tail(values), sep)

TypeTexts ==
    {S_coordinates, S_offset, S_image, S_browser, S_bogus, <<>>,
     <<" ", "O", "f", "f", "s", "e", "t", " ">>, <<"I", "M", "A", "G", "E">>}

ValueTexts ==
    {<<"7">>, <<"-", "5">>, <<"a">>, <<>>, <<" ", "7", " ">>, <<"1", ".", "5">>}

CoordRange == (0 - MaxCoord)..MaxCoord

\* "<type>:<x>,<y>" as a caller formats it from two integers
XYText(t, x, y) == t \o <<":">> \o IntToStr(x) \o <<",">> \o IntToStr(y)

\* a browser string of one value more than the class has fields
BrowserTexts ==
    {S_browser \o <<":">> \o Join(vs, ",") : vs \in [1..5 -> {<<"a">>, <<>>}]}

Texts ==
    TypeTexts
    \cup BrowserTexts
    \cup {t \o <<":">> \o Join(vs, ",") :
            t \in TypeTexts, vs \in UNION {[1..n -> ValueTexts] : n \in 1..MaxValues}}
    \cup {XYText(t, x, y) : t \in {S_coordinates, S_offset}, x \in CoordRange,
                            y \in CoordRange}

NoLocator == Instance("None", <<>>)

(***************************************************************************)
(* State: the operation last called (op), its argument as passed (arg),    *)
(* the caller's record object (data), the locator to_dict was called on    *)
(* (self), the outcome of the call (ret) and, for find, what the matching  *)
(* engine produced before the driver touched it (engine); the time         *)
(* time.time() reads (clock) and the local variables of the call that is   *)
(* under way (frame).                                                      *)
(***************************************************************************)
Init ==
    /\ op = "idle"
    /\ arg = <<>>
    /\ data = <<>>
    /\ self = NoLocator
    /\ ret = NoCall
    /\ engine = <<>>
    /\ clock = 0
    /\ frame = <<>>

\* the caller builds a record
NewRecord(r) ==
    /\ op = "idle"
    /\ op' = "new"
    /\ arg' = r
    /\ data' = r
    /\ UNCHANGED <<self, ret, engine, clock, frame>>

\* loc.to_dict(), the record kept by the caller
ToDict(loc) ==
    /\ op = "idle"
    /\ op' = "to_dict"
    /\ arg' = loc
    /\ self' = loc
    /\ data' = to_dict(loc)
    /\ ret' = Return(to_dict(loc))
    /\ UNCHANGED <<engine, clock, frame>>

\* Locator.from_dict(data) on the caller's record, which the call mutates
FromDict ==
    /\ op \in {"new", "to_dict", "from_dict"}
    /\ op' = "from_dict"
    /\ arg' = [data |-> data, from |-> op]
    /\ data' = from_dict(data).data
    /\ ret' = from_dict(data).ret
    /\ UNCHANGED <<self, engine, clock, frame>>

\* Locator.from_string(text)
FromString(text) ==
    /\ op = "idle"
    /\ op' = "from_string"
    /\ arg' = text
    /\ ret' = from_string(text)
    /\ UNCHANGED <<data, self, engine, clock, frame>>

\* no call has been made yet: the inputs are enumerated only then
Idle == op = "idle"

NextLocator ==
    \/ Idle /\ \E r \in Records : NewRecord(r)
    \/ Idle /\ \E loc \in Locators : ToDict(loc)
    \/ FromDict
    \/ Idle /\ \E text \in Texts : FromString(text)

SpecLocator == Init /\ [][NextLocator]_vars

(***************************************************************************)
(* The locator variants as the specification's data model declares them:   *)
(* typename -> all fields, required fields, primitive type per position.   *)
(***************************************************************************)
RegisteredTypenames == {S_image, S_browser, S_coordinates, S_offset}

DeclaredFields(t) ==
    CASE t = S_image -> {"path", "confidence"}
      [] t = S_browser -> {"strategy", "value", "source", "screenshot"}
      [] t = S_coordinates -> {"x", "y"}
      [] t = S_offset -> {"x", "y"}

DeclaredRequired(t) ==
    CASE t = S_image -> {"path"}
      [] t = S_browser -> {"strategy", "value"}
      [] t = S_coordinates -> {"x", "y"}
      [] t = S_offset -> {"x", "y"}

DeclaredPrimitives(t) ==
    CASE t = S_image -> <<"string", "float">>
      [] t = S_browser -> <<"string", "string", "string", "string">>
      [] t = S_coordinates -> <<"integer", "integer">>
      [] t = S_offset -> <<"integer", "integer">>

\* the record of a from_dict call names a registered variant
NamesVariant(d) ==
    /\ "type" \in DOMAIN d
    /\ d["type"][1] = "str"
    /\ d["type"][2] \in RegisteredTypenames

\* C1: a locator run through to_dict and then from_dict comes back as the
\* same variant with the same value in every field.
RoundTrip ==
    (op = "from_dict" /\ arg.from = "to_dict")
        => (ret.kind = "return" /\ ret.value = self)

RoundTripWitness ==
    /\ op = "from_dict"
    /\ arg.from = "to_dict"
    /\ self.class = "Offset"
    /\ ret.kind = "return"
    /\ ret.value.class = "Offset"
    /\ ret.value.fields = self.fields

\* C2: a record naming a variant and lacking a field without a default
\* fails with the missing-field error naming exactly the missing required
\* fields, and constructs nothing.
MissingFieldDetected ==
    (op = "from_dict" /\ NamesVariant(arg.data))
        => LET lacking == DeclaredRequired(arg.data["type"][2]) \ DOMAIN arg.data
           IN lacking # {}
                => /\ ret.kind = "raise"
                   /\ ret.error = "ValueError"
                   /\ ret.msg = "Missing locator field(s)"
                   /\ ret.detail = lacking
                   /\ ret.value = <<>>

MissingFieldWitness ==
    /\ op = "from_dict"
    /\ arg.data = WithType(<<>>, PyStr(S_image))
    /\ ret.kind = "raise"
    /\ ret.msg = "Missing locator field(s)"
    /\ ret.detail = {"path"}

\* the type part of a locator string, trimmed and lower-cased
TypePart(text) == Lower(Strip(Partition(text, ":")[1]))

UnknownTypeError ==
    /\ ret.kind = "raise"
    /\ ret.error = "ValueError"
    /\ ret.msg = "Unknown locator type"

\* C3 as stated: every record carrying a `type` value that is no registered
\* typename, and every string whose type part is none, fails with the
\* unknown-locator-type error.
UnknownTypeAlways ==
    /\ (op = "from_dict" /\ "type" \in DOMAIN arg.data /\ ~NamesVariant(arg.data))
          => UnknownTypeError
    /\ (op = "from_string" /\ TypePart(arg) \notin RegisteredTypenames)
          => UnknownTypeError

FalsyTypeValues == {PyStr(<<>>), PyInt(0), PyNone}

\* C3 amended: the unknown-locator-type error is raised for a `type` value
\* that is not empty (not "", 0 or None) and no registered typename; an
\* empty one is reported as a missing type; from_string reports every
\* unregistered type part, the empty one included, as unknown.
UnknownTypeDetected ==
    /\ (op = "from_dict" /\ "type" \in DOMAIN arg.data /\ ~NamesVariant(arg.data))
          => IF arg.data["type"] \in FalsyTypeValues
             THEN /\ ret.kind = "raise"
                  /\ ret.error = "ValueError"
                  /\ ret.msg = "Missing locator type field"
             ELSE UnknownTypeError /\ ret.detail = arg.data["type"]
    /\ (op = "from_string" /\ TypePart(arg) \notin RegisteredTypenames)
          => UnknownTypeError

UnknownTypeWitness ==
    /\ op = "from_dict"
    /\ "type" \in DOMAIN arg.data
    /\ arg.data["type"] = PyStr(S_bogus)
    /\ DOMAIN arg.data # {"type"}
    /\ UnknownTypeError

\* C4: keys that are not declared fields of the variant change nothing: the
\* call succeeds and gives the locator the record without them gives.
ExtrasIgnored ==
    (op = "from_dict" /\ NamesVariant(arg.data))
        => LET d == arg.data
               declared == DeclaredFields(d["type"][2]) \cup {"type"}
               r == [k \in DOMAIN d \cap declared |-> d[k]]
           IN (DOMAIN d # DOMAIN r /\ from_dict(r).ret.kind = "return")
                => ret = from_dict(r).ret

ExtrasIgnoredWitness ==
    /\ op = "from_dict"
    /\ NamesVariant(arg.data)
    /\ arg.data["type"][2] = S_coordinates
    /\ "name" \in DOMAIN arg.data
    /\ ret.kind = "return"
    /\ ret.value.class = "Coordinates"

XY(x, y) == [n \in {"x", "y"} |-> IF n = "x" THEN PyInt(x) ELSE PyInt(y)]

HasPrefix(s, p) == Len(p) <= Len(s) /\ SubSeq(s, 1, Len(p)) = p

\* C5: "coordinates:x,y" parses to Coordinates{x, y} and "offset:x,y" to
\* Offset{x, y}, for negative values too, as integers in declaration order.
StringParse ==
    op = "from_string"
        => \A x \in CoordRange :
              /\ HasPrefix(arg, S_coordinates \o <<":">> \o IntToStr(x) \o <<",">>)
                    => \A y \in CoordRange :
                          arg = XYText(S_coordinates, x, y)
                             => ret = Return(Instance("Coordinates", XY(x, y)))
              /\ HasPrefix(arg, S_offset \o <<":">> \o IntToStr(x) \o <<",">>)
                    => \A y \in CoordRange :
                          arg = XYText(S_offset, x, y)
                             => ret = Return(Instance("Offset", XY(x, y)))

StringParseWitness ==
    /\ op = "from_string"
    /\ arg = XYText(S_offset, -5, 10)
    /\ ret.kind = "return"
    /\ ret.value = Instance("Offset", XY(-5, 10))

\* the values of a locator string
ValuesOf(text) == Split(Partition(text, ":")[3], ",")

Min(a, b) == IF a < b THEN a ELSE b

\* a value that cannot be read as its field's primitive type
NotCoercible(primitive, value) ==
    CASE primitive = "integer" -> ~int(value).ok
      [] primitive = "float" -> ~float(value).ok
      [] OTHER -> FALSE

SomeNotCoercible(t, values) ==
    \E i \in 1..Min(Len(values), Len(DeclaredPrimitives(t))) :
        NotCoercible(DeclaredPrimitives(t)[i], values[i])

Black == <<0, 0, 0>>

Navy == <<0, 0, 1>>

White == <<255, 255, 255>>

\* the colours of the images given to the engine: two of equal luminance
Palette == {Black, Navy, White}

\* the colours of the images given to find
FindPalette == {Black, White}

Image(w, h, pixels) == [size |-> <<w, h>>, data |-> pixels]

Shapes(area) == {s \in (1..area) \X (1..area) : s[1] * s[2] <= area}

\* every image of at most `area` pixels over the colours
ImagesOver(colours, area) ==
    UNION {{Image(s[1], s[2], d) : d \in [1..(s[1] * s[2]) -> colours]} :
             s \in Shapes(area)}

\* Image.convert("L") on one RGB pixel (ITU-R 601-2 luma, as Pillow rounds it)
luma(p) == (p[1] * 19595 + p[2] * 38470 + p[3] * 7471 + 32768) \div 65536

\* ImageOps.grayscale(image)
grayscale(image) ==
    [size |-> image.size,
     data |-> [i \in 1..Len(image.data) |-> luma(image.data[i])]]

\* Image.crop(box): the box's pixels, black where the box leaves the image
crop(image, box) ==
    LET w == box[3] - box[1]
        h == box[4] - box[2]
        at(i) ==
            LET x == box[1] + ((i - 1) % w)
                y == box[2] + ((i - 1) \div w)
            IN IF x >= 0 /\ x < image.size[1] /\ y >= 0 /\ y < image.size[2]
               THEN image.data[y * image.size[1] + x + 1]
               ELSE Black
    IN [size |-> <<w, h>>, data |-> [i \in 1..(w * h) |-> at(i)]]

\* seq[a:b] for 0 <= a
py_slice(seq, a, b) == SubSeq(seq, a + 1, Min(b, Len(seq)))

\* seq[:-n]
py_drop_last(seq, n) ==
    IF n = 0 THEN <<>> ELSE SubSeq(seq, 1, Len(seq) - n)

(***************************************************************************)
(* RPA.core.geometry.Region, as the specification describes it.            *)
(***************************************************************************)
Region(left, top, right, bottom) ==
    [left |-> left, top |-> top, right |-> right, bottom |-> bottom]

Region_from_size(x, y, w, h) == Region(x, y, x + w, y + h)

Region_as_tuple(r) == <<r.left, r.top, r.right, r.bottom>>

\* the region after r.move(dx, dy)
Region_move(r, dx, dy) == Region(r.left + dx, r.top + dy, r.right + dx, r.bottom + dy)

\* geometry.to_region on a Region
to_region(r) == r

(***************************************************************************)
(* templates.py                                                            *)
(***************************************************************************)
\* [obj[i : i + size] for i in range(start, len(obj), size)]
_chunks(obj, size, start) ==
    [k \in 1..((Len(obj) - start + size - 1) \div size) |->
        py_slice(obj, start + (k - 1) * size, start + k * size)]

\* the inner while of the shift table: advance shift past mismatches
RECURSIVE shift_while(_, _, _, _)
shift_while(pattern, shifts, idx, shift) ==
    IF shift <= idx /\ pattern[idx + 1] # pattern[idx - shift + 1]
    THEN shift_while(pattern, shifts, idx, shift + shifts[idx - shift + 1])
    ELSE shift

\* for idx in range(pattern_len): ... shifts[idx + 1] = shift
RECURSIVE build_shifts(_, _, _, _)
build_shifts(pattern, shifts, idx, shift) ==
    IF idx >= Len(pattern) THEN shifts
    ELSE LET s2 == shift_while(pattern, shifts, idx, shift)
         IN build_shifts(pattern, [shifts EXCEPT ![idx + 2] = s2], idx + 1, s2)

\* the table left as it is made, every shift 1
shift_table_unfilled(pattern) == [i \in 1..(Len(pattern) + 1) |-> 1]

\* shifts = [1] * (pattern_len + 1), then filled; shifts[i] is at index i + 1
shift_table(pattern) ==
    build_shifts(pattern, [i \in 1..(Len(pattern) + 1) |-> 1], 0, 1)

\* the inner while of the search: <<start_idx, match_len>> when it exits
RECURSIVE search_while(_, _, _, _, _)
search_while(pattern, shifts, char, start_idx, match_len) ==
    IF \/ match_len = Len(pattern)
       \/ (match_len >= 0 /\ pattern[match_len + 1] # char)
    THEN search_while(pattern, shifts, char, start_idx + shifts[match_len + 1],
                      match_len - shifts[match_len + 1])
    ELSE <<start_idx, match_len>>

\* for char in text: ...; the start indices yielded from text[i] on
RECURSIVE search_loop(_, _, _, _, _, _)
search_loop(text, pattern, shifts, i, start_idx, match_len) ==
    IF i > Len(text) THEN <<>>
    ELSE LET st == search_while(pattern, shifts, text[i], start_idx, match_len)
             ml == st[2] + 1
         IN (IF ml = Len(pattern) THEN <<st[1]>> ELSE <<>>)
            \o search_loop(text, pattern, shifts, i + 1, st[1], ml)

\* _search_string(text, pattern): the indices it yields, in order
_search_string(text, pattern) ==
    search_loop(text, pattern, shift_table(pattern), 1, 0, 0)

\* the check of the rows after the first, for the candidate (image_x, image_y):
\* enumerate(template_rows[1:], image_y) pairs template row k (k >= 1) with
\* match_y = image_y + k - 1
rows_match(image_rows, template_rows, template_width, image_x, image_y) ==
    \A k \in 2..Len(template_rows) :
        LET match_y == image_y + (k - 2)
            match_row == py_slice(image_rows[match_y + 1], image_x,
                                  image_x + template_width)
        IN template_rows[k] = match_row

\* the scan with the rows taken from the bottom up
RECURSIVE scan_rows_bottom_up(_, _, _, _, _, _)
scan_rows_bottom_up(scanned, image_rows, template_rows, template_width, template_height, image_y) ==
    IF image_y >= Len(scanned) THEN <<>>
    ELSE LET xs == _search_string(scanned[image_y + 1], template_rows[1])
             hit(image_x) ==
                 rows_match(image_rows, template_rows, template_width, image_x,
                            image_y)
             found == SelectSeq(xs, hit)
         IN scan_rows_bottom_up(scanned, image_rows, template_rows, template_width,
                                template_height, image_y + 1)
            \o [i \in 1..Len(found) |->
                   Region_from_size(found[i], image_y, template_width,
                                    template_height)]

\* the regions yielded for the rows from image_y on, of the rows scanned
RECURSIVE scan_rows(_, _, _, _, _, _)
scan_rows(scanned, image_rows, template_rows, template_width, template_height, image_y) ==
    IF image_y >= Len(scanned) THEN <<>>
    ELSE LET xs == _search_string(scanned[image_y + 1], template_rows[1])
             hit(image_x) ==
                 rows_match(image_rows, template_rows, template_width, image_x,
                            image_y)
             found == SelectSeq(xs, hit)
         IN [i \in 1..Len(found) |->
                Region_from_size(found[i], image_y, template_width,
                                 template_height)]
            \o scan_rows(scanned, image_rows, template_rows, template_width,
                         template_height, image_y + 1)

\* _fallback(image, template, confidence): the regions it yields, in order
_fallback(image, template, confidence) ==
    LET gray == grayscale(image)
        tmpl == grayscale(template)
        template_width == tmpl.size[1]
        template_height == tmpl.size[2]
        template_rows == _chunks(tmpl.data, template_width, 0)
        image_width == gray.size[1]
        image_rows == _chunks(gray.data, image_width, 0)
    IN scan_rows(py_drop_last(image_rows, Len(template_rows)), image_rows,
                 template_rows, template_width, template_height, 0)

\* optional arguments: <<>> is None, <<v>> is the value v
None == <<>>

Some(v) == <<v>>

\* the build without the optional RPA.recognition package
HAS_RECOGNITION == FALSE

\* func(image, template, confidence): what the chosen generator holds
func(image, template, confidence) == _fallback(image, template, confidence)

\* the loop of _find over a generator checking the limit before the append
RECURSIVE find_loop_checks_first(_, _, _)
find_loop_checks_first(generator, matches, limit) ==
    IF generator = <<>> THEN matches
    ELSE IF limit # None /\ Len(matches) >= limit[1] THEN matches
    ELSE find_loop_checks_first(Tail(generator), Append(matches, Head(generator)),
                                limit)

\* the loop of _find over what is left of the generator
RECURSIVE find_loop(_, _, _)
find_loop(generator, matches, limit) ==
    IF generator = <<>> THEN matches
    ELSE LET appended == Append(matches, Head(generator))
         IN IF limit # None /\ Len(appended) >= limit[1] THEN appended
            ELSE find_loop(Tail(generator), appended, limit)

\* _find without the test of the limit
_find_unlimited(image, template, confidence, limit) ==
    find_loop(func(image, template, confidence), <<>>, None)

\* _find(image, template, confidence, limit)
_find(image, template, confidence, limit) ==
    find_loop(func(image, template, confidence), <<>>, limit)

\* the size test with `and` for `or`
template_too_large_both(template, image) ==
    template.size[1] > image.size[1] /\ template.size[2] > image.size[2]

\* template.size[0] > image.size[0] or template.size[1] > image.size[1]
template_too_large(template, image) ==
    template.size[1] > image.size[1] \/ template.size[2] > image.size[2]

\* the translation with the offsets exchanged
move_back_swapped(matches, region) ==
    [i \in 1..Len(matches) |-> Region_move(matches[i], region.top, region.left)]

\* for match in matches: match.move(region.left, region.top)
move_back(matches, region) ==
    [i \in 1..Len(matches) |-> Region_move(matches[i], region.left, region.top)]

\* find(image, template, region, limit, confidence): the outcome, and what
\* the engine was asked and gave
find(image, template, region, limit, confidence) ==
    LET box == to_region(region[1])
        searched == IF region # None THEN crop(image, Region_as_tuple(box))
                    ELSE image
        matches == _find(searched, template, confidence, limit)
    IN IF template_too_large(template, searched)
       THEN [ret |-> Raise("ValueError", "Template is larger than search region", {}),
             engine |-> [invoked |-> FALSE, searched |-> searched, matches |-> <<>>]]
       ELSE IF matches = <<>>
       THEN [ret |-> Raise("ImageNotFoundError", "No matches for given template", {}),
             engine |-> [invoked |-> TRUE, searched |-> searched, matches |-> matches]]
       ELSE [ret |-> Return(IF region # None THEN move_back(matches, box)
                            ELSE matches),
             engine |-> [invoked |-> TRUE, searched |-> searched, matches |-> matches]]

(***************************************************************************)
(* The inputs of the engine and of find.                                   *)
(***************************************************************************)
Haystacks == ImagesOver(Palette, MaxArea)

Templates == ImagesOver(Palette, MaxTArea)

FindImages == ImagesOver(FindPalette, FindMaxArea)

FindTemplates == ImagesOver(FindPalette, FindMaxTArea)

\* the regions of at least one pixel inside an image
RegionsIn(image) ==
    {Region_from_size(l, t, w, h) :
        <<l, t, w, h>> \in
           {q \in (0..(image.size[1] - 1)) \X (0..(image.size[2] - 1))
                    \X (1..image.size[1]) \X (1..image.size[2]) :
               q[1] + q[3] <= image.size[1] /\ q[2] + q[4] <= image.size[2]}}

Limits == {None} \cup {Some(k) : k \in 0..MaxLimit}

\* the engine is called directly
Fallback(image, template, confidence) ==
    /\ op = "idle"
    /\ op' = "_fallback"
    /\ arg' = [image |-> image, template |-> template, confidence |-> confidence]
    /\ ret' = Return(_fallback(image, template, confidence))
    /\ UNCHANGED <<data, self, engine, clock, frame>>

NextEngine ==
    Idle /\ \E image \in Haystacks, template \in Templates :
               Fallback(image, template, None)

SpecEngine == Init /\ [][NextEngine]_vars

(***************************************************************************)
(* _search_string called on its own, with rows of grey levels.             *)
(***************************************************************************)
\* the grey levels of Black and White
GreyLevels == {luma(Black), luma(White)}

SearchTexts == UNION {[1..n -> GreyLevels] : n \in 0..MaxTextLen}

SearchPatterns == UNION {[1..n -> GreyLevels] : n \in 1..MaxPatternLen}

\* list(_search_string(text, pattern))
SearchString(text, pattern) ==
    /\ op = "idle"
    /\ op' = "_search_string"
    /\ arg' = [text |-> text, pattern |-> pattern]
    /\ ret' = Return(_search_string(text, pattern))
    /\ UNCHANGED <<data, self, engine, clock, frame>>

NextSearch ==
    Idle /\ \E text \in SearchTexts, pattern \in SearchPatterns :
               SearchString(text, pattern)

SpecSearch == Init /\ [][NextSearch]_vars

\* find(image, template, region, limit, confidence)
Find(image, template, region, limit, confidence) ==
    /\ op = "idle"
    /\ op' = "find"
    /\ arg' = [image |-> image, template |-> template, region |-> region,
               limit |-> limit, confidence |-> confidence]
    /\ ret' = find(image, template, region, limit, confidence).ret
    /\ engine' = find(image, template, region, limit, confidence).engine
    /\ UNCHANGED <<data, self, clock, frame>>

NextFind ==
    Idle /\ \E image \in FindImages, template \in FindTemplates, limit \in Limits :
               \E region \in {None} \cup {Some(r) : r \in RegionsIn(image)} :
                  Find(image, template, region, limit, None)

SpecFind == Init /\ [][NextFind]_vars

(***************************************************************************)
(* RPA.recognition.templates: the accelerated engine.  Coefficients and    *)
(* confidences are counted in hundredths (0.95 is 95).  The coefficient    *)
(* map is the matrix cv2.matchTemplate returned: a sequence of rows, one   *)
(* cell for every placement of the template's top-left corner.             *)
(***************************************************************************)
DEFAULT_CONFIDENCE == 95

Max(a, b) == IF a > b THEN a ELSE b

\* the clamp without its upper end
clamp_from_below(confidence) == Max(1, confidence)

\* max(0.01, min(confidence, 1.00))
clamp(confidence) == Max(1, Min(confidence, 100))

\* the maximum of the map and its place; cv2.minMaxLoc does not say which of
\* several equal maxima it reports: `tie` is the build's choice, the first
\* or the last in row-major order
minMaxLoc(coefficients, tie) ==
    LET width == Len(coefficients[1])
        cells == 0..(width * Len(coefficients) - 1)
        val(i) == coefficients[(i \div width) + 1][(i % width) + 1]
        best == {i \in cells : \A j \in cells : val(j) <= val(i)}
        pick == IF tie = "first" THEN CHOOSE i \in best : \A j \in best : i <= j
                ELSE CHOOSE i \in best : \A j \in best : j <= i
    IN [match_coeff |-> val(pick), match_x |-> pick % width,
        match_y |-> pick \div width]

\* the indices numpy's basic slice [start:stop] selects on an axis of length
\* n: a negative bound counts from the end, and both are clipped to 0..n
np_slice(start, stop, n) ==
    LET a == IF start < 0 THEN Max(start + n, 0) ELSE Min(start, n)
        b == IF stop < 0 THEN Max(stop + n, 0) ELSE Min(stop, n)
    IN {i \in 0..(n - 1) : a <= i /\ i < b}

\* the suppression writing 1.00 for 0
suppress_with_one(coefficients, match_x, match_y, template_width, template_height) ==
    LET rows == np_slice(match_y - template_height \div 2,
                         match_y + template_height \div 2, Len(coefficients))
        cols == np_slice(match_x - template_width \div 2,
                         match_x + template_width \div 2, Len(coefficients[1]))
    IN [y \in 1..Len(coefficients) |->
          [x \in 1..Len(coefficients[1]) |->
              IF (y - 1) \in rows /\ (x - 1) \in cols THEN 100
              ELSE coefficients[y][x]]]

\* coefficients[match_y - h // 2 : match_y + h // 2,
\*              match_x - w // 2 : match_x + w // 2] = 0
suppress(coefficients, match_x, match_y, template_width, template_height) ==
    LET rows == np_slice(match_y - template_height \div 2,
                         match_y + template_height \div 2, Len(coefficients))
        cols == np_slice(match_x - template_width \div 2,
                         match_x + template_width \div 2, Len(coefficients[1]))
    IN [y \in 1..Len(coefficients) |->
          [x \in 1..Len(coefficients[1]) |->
              IF (y - 1) \in rows /\ (x - 1) \in cols THEN 0
              ELSE coefficients[y][x]]]

\* the test of the loop with the comparison turned around
below_confidence_inverted(match_coeff, confidence) == match_coeff > confidence

\* if match_coeff < confidence: break
below_confidence(match_coeff, confidence) == match_coeff < confidence

\* the yielded region with the coordinates exchanged
yielded_region_swapped(match_x, match_y, template_width, template_height) ==
    Region_from_size(match_y, match_x, template_width, template_height)

\* Region.from_size(match_x, match_y, template_width, template_height)
yielded_region(match_x, match_y, template_width, template_height) ==
    Region_from_size(match_x, match_y, template_width, template_height)

\* one turn of `while True`: the generator ends, or it suppresses the place
\* of the maximum and yields its region
recognition_turn(coefficients, confidence, template_size, tie) ==
    LET m == minMaxLoc(coefficients, tie)
    IN IF below_confidence(m.match_coeff, confidence)
       THEN [ended |-> TRUE, coefficients |-> coefficients,
             match_coeff |-> m.match_coeff, region |-> <<>>]
       ELSE [ended |-> FALSE,
             coefficients |-> suppress(coefficients, m.match_x, m.match_y,
                                       template_size[1], template_size[2]),
             match_coeff |-> m.match_coeff,
             region |-> yielded_region(m.match_x, m.match_y,
                                       template_size[1], template_size[2])]

\* the first n regions the loop yields from a map, fewer when it ends
RECURSIVE recognition_yields(_, _, _, _, _)
recognition_yields(coefficients, confidence, template_size, tie, n) ==
    LET turn == recognition_turn(coefficients, confidence, template_size, tie)
    IN IF n = 0 \/ turn.ended THEN <<>>
       ELSE <<turn.region>>
            \o recognition_yields(turn.coefficients, confidence, template_size,
                                  tie, n - 1)

(***************************************************************************)
(* The accelerated engine called directly: find(image, template,           *)
(* confidence) makes a generator, and every next() runs it to its next     *)
(* yield.  frame holds the generator's local variables, engine the         *)
(* regions yielded so far and the coefficient each was yielded for.        *)
(***************************************************************************)
CoefficientValues == {0, 60, 100}

\* the matrices of at most `area` cells
MapsOver(values, area) ==
    UNION {[1..s[2] -> [1..s[1] -> values]] : s \in Shapes(area)}

CoefficientMaps == MapsOver(CoefficientValues, MaxMapArea)

TemplateSizes == (1..MaxTemplateSide) \X (1..MaxTemplateSide)

\* the confidences passed: none given (the default applies), None, and
\* numbers inside and outside 0.01..1.00
Confidences ==
    {None} \cup {Some(c) : c \in {DEFAULT_CONFIDENCE, 0, 50, 100, 150}}

Ties == {"first", "last"}

\* find(image, template, confidence): the generator is made, nothing runs
RecognitionFind(coefficients, template_size, confidence, tie) ==
    /\ op = "idle"
    /\ op' = "recognition.find"
    /\ arg' = [coefficients |-> coefficients, template_size |-> template_size,
               confidence |-> confidence]
    /\ frame' = [pc |-> "created", coefficients |-> coefficients,
                 confidence |-> confidence, tie |-> tie]
    /\ engine' = [yielded |-> <<>>, match_coeffs |-> <<>>]
    /\ ret' = NoCall
    /\ UNCHANGED <<data, self, clock>>

\* next(generator): the lines up to the loop on the first call, then one
\* turn of the loop
RecognitionNext ==
    /\ op = "recognition.find"
    /\ frame.pc \in {"created", "suspended"}
    /\ Len(engine.yielded) < MaxYields
    /\ IF frame.pc = "created" /\ frame.confidence = None
       THEN /\ ret' = Raise("TypeError",
                            "'<' not supported between instances of 'float' and 'NoneType'",
                            {})
            /\ frame' = [frame EXCEPT !.pc = "ended"]
            /\ UNCHANGED engine
       ELSE LET confidence == IF frame.pc = "created"
                               THEN clamp(frame.confidence[1])
                               ELSE frame.confidence
                turn == recognition_turn(frame.coefficients, confidence,
                                         arg.template_size, frame.tie)
            IN IF turn.ended
               THEN /\ ret' = Raise("StopIteration", "", {})
                    /\ frame' = [frame EXCEPT !.pc = "ended",
                                              !.confidence = confidence]
                    /\ UNCHANGED engine
               ELSE /\ ret' = Return(turn.region)
                    /\ frame' = [frame EXCEPT !.pc = "suspended",
                                              !.confidence = confidence,
                                              !.coefficients = turn.coefficients]
                    /\ engine' = [yielded |-> Append(engine.yielded, turn.region),
                                  match_coeffs |-> Append(engine.match_coeffs,
                                                          turn.match_coeff)]
    /\ UNCHANGED <<op, arg, data, self, clock>>

NextRecognition ==
    \/ Idle /\ \E coefficients \in CoefficientMaps, template_size \in TemplateSizes :
                  \E confidence \in Confidences, tie \in Ties :
                     RecognitionFind(coefficients, template_size, confidence, tie)
    \/ RecognitionNext

SpecRecognition == Init /\ [][NextRecognition]_vars

(***************************************************************************)
(* find of RPA.core.locators.templates in the build that has the           *)
(* RPA.recognition package: _find runs the accelerated engine.  What       *)
(* cv2.matchTemplate computes for the searched image is an input of the    *)
(* call, a map with one cell for every placement of the template.          *)
(***************************************************************************)
\* the call that does not come back
Diverges == [kind |-> "diverges", error |-> "none", msg |-> "", detail |-> {}, value |-> <<>>]

\* the loop never ends: a turn yields and leaves the map as it was
RECURSIVE recognition_endless(_, _, _, _)
recognition_endless(coefficients, confidence, template_size, tie) ==
    LET turn == recognition_turn(coefficients, confidence, template_size, tie)
    IN IF turn.ended THEN FALSE
       ELSE IF turn.coefficients = coefficients THEN TRUE
       ELSE recognition_endless(turn.coefficients, confidence, template_size, tie)

\* the loop of _find testing the limit before it appends: the generator is
\* resumed once more than matches are kept
RECURSIVE find_loop_recognition_late(_, _, _, _, _, _, _)
find_loop_recognition_late(coefficients, confidence, template_size, tie, limit, matches, resumed) ==
    LET turn == recognition_turn(coefficients, confidence, template_size, tie)
    IN IF turn.ended \/ (limit # None /\ Len(matches) >= limit[1])
       THEN [matches |-> matches, resumed |-> resumed + 1]
       ELSE find_loop_recognition_late(turn.coefficients, confidence,
                                       template_size, tie, limit,
                                       Append(matches, turn.region), resumed + 1)

\* for match in func(image, template, confidence): matches.append(match);
\* if limit is not None and len(matches) >= int(limit): break
\* Every turn of the loop resumes the generator once; `resumed` counts them.
RECURSIVE find_loop_recognition(_, _, _, _, _, _, _)
find_loop_recognition(coefficients, confidence, template_size, tie, limit, matches, resumed) ==
    LET turn == recognition_turn(coefficients, confidence, template_size, tie)
    IN IF turn.ended
       THEN [matches |-> matches, resumed |-> resumed + 1]
       ELSE IF limit # None /\ Len(matches) + 1 >= limit[1]
       THEN [matches |-> Append(matches, turn.region), resumed |-> resumed + 1]
       ELSE find_loop_recognition(turn.coefficients, confidence, template_size,
                                  tie, limit, Append(matches, turn.region),
                                  resumed + 1)

\* _find with func = recognition.templates.find: the error of the loop, if
\* any, the matches collected and how often the generator was resumed (none
\* when it is resumed for ever).  The first next() of the generator
\* computes min(confidence, 1.00).
_find_recognition(coefficients, template_size, confidence, limit, tie) ==
    LET c == clamp(confidence[1])
        loop == find_loop_recognition(coefficients, c, template_size, tie, limit,
                                      <<>>, 0)
    IN IF confidence = None
       THEN [ret |-> Raise("TypeError",
                           "'<' not supported between instances of 'float' and 'NoneType'",
                           {}),
             matches |-> <<>>, resumed |-> Some(1)]
       ELSE IF limit = None /\ recognition_endless(coefficients, c, template_size, tie)
       THEN [ret |-> Diverges, matches |-> <<>>, resumed |-> None]
       ELSE [ret |-> NoCall, matches |-> loop.matches,
             resumed |-> Some(loop.resumed)]

\* find(image, template, region, limit, confidence) in that build, where
\* matchTemplate is the map cv2.matchTemplate gives for the searched image
find_recognition(image, template, region, limit, confidence, matchTemplate, tie) ==
    LET box == to_region(region[1])
        searched == IF region # None THEN crop(image, Region_as_tuple(box))
                    ELSE image
        found == _find_recognition(matchTemplate, template.size, confidence,
                                   limit, tie)
    IN IF template_too_large(template, searched)
       THEN [ret |-> Raise("ValueError", "Template is larger than search region", {}),
             engine |-> [invoked |-> FALSE, searched |-> searched,
                         coefficients |-> <<>>, matches |-> <<>>,
                         resumed |-> Some(0)]]
       ELSE IF found.ret # NoCall
       THEN [ret |-> found.ret,
             engine |-> [invoked |-> TRUE, searched |-> searched,
                         coefficients |-> matchTemplate, matches |-> <<>>,
                         resumed |-> found.resumed]]
       ELSE IF found.matches = <<>>
       THEN [ret |-> Raise("ImageNotFoundError", "No matches for given template", {}),
             engine |-> [invoked |-> TRUE, searched |-> searched,
                         coefficients |-> matchTemplate, matches |-> <<>>,
                         resumed |-> found.resumed]]
       ELSE [ret |-> Return(IF region # None THEN move_back(found.matches, box)
                            ELSE found.matches),
             engine |-> [invoked |-> TRUE, searched |-> searched,
                         coefficients |-> matchTemplate,
                         matches |-> found.matches, resumed |-> found.resumed]]

\* the images of one colour: what the engine makes of the pixels is in the map
PlainImages == ImagesOver({Black}, FindMaxArea)

PlainTemplates == ImagesOver({Black}, FindMaxTArea)

\* the maps cv2.matchTemplate can return for a template that fits the image
MapsFor(image, template) ==
    [1..(image.size[2] - template.size[2] + 1) ->
        [1..(image.size[1] - template.size[1] + 1) -> CoefficientValues]]

\* the area find searches
Searched(image, region) ==
    IF region # None THEN crop(image, Region_as_tuple(to_region(region[1])))
    ELSE image

\* find(image, template, region, limit, confidence) with the package
FindRecognition(image, template, region, limit, confidence, matchTemplate, tie) ==
    /\ op = "idle"
    /\ op' = "find"
    /\ arg' = [image |-> image, template |-> template, region |-> region,
               limit |-> limit, confidence |-> confidence]
    /\ \E found \in {find_recognition(image, template, region, limit, confidence,
                                      matchTemplate, tie)} :
          /\ ret' = found.ret
          /\ engine' = found.engine
    /\ frame' = [tie |-> tie]
    /\ UNCHANGED <<data, self, clock>>

NextFindRecognition ==
    Idle /\ \E image \in PlainImages, template \in PlainTemplates, limit \in Limits :
               \E region \in {None} \cup {Some(r) : r \in RegionsIn(image)} :
                  \E confidence \in Confidences, tie \in Ties :
                     \E matchTemplate \in
                            IF template_too_large(template, Searched(image, region))
                            THEN {<<>>}
                            ELSE MapsFor(Searched(image, region), template) :
                        FindRecognition(image, template, region, limit,
                                        confidence, matchTemplate, tie)

SpecFindRecognition == Init /\ [][NextFindRecognition]_vars

(***************************************************************************)
(* RPA.Desktop: find, find_elements, find_element and the polling loop     *)
(* wait_for_element.  Time is counted in ticks of the clock time.time()    *)
(* reads.  A locator argument is a string <<"str", chars>>, a              *)
(* <<"Region", r>>, a <<"Point", p>> or a <<"Locator", instance>>; the     *)
(* strings given hold a colon (names of the locator database are not       *)
(* modelled).  The screenshot is the environment's: what the accelerated   *)
(* engine computes for it is the coefficient map of the attempt.           *)
(***************************************************************************)
\* RPA.core.geometry.Point and Region.center, as the specification
\* describes them
Point(x, y) == [x |-> x, y |-> y]

Region_center(r) == Point((r.left + r.right) \div 2, (r.top + r.bottom) \div 2)

\* p.offset(dx, dy): a Point is an immutable value, the translation is a
\* new Point and p stays as it is
Point_offset(p, dx, dy) == Point(p.x + dx, p.y + dy)

RECURSIVE Pow10(_)
Pow10(e) == IF e = 0 THEN 1 ELSE 10 * Pow10(e - 1)

\* a float of at most two decimals, in hundredths
hundredths(v) == (v[2] * 100) \div Pow10(v[3])

\* isinstance(error, ValueError): TimeoutException derives from ValueError
is_ValueError(error) == error \in {"ValueError", "TimeoutException"}

\* templates.find(self.take_screenshot(), locator.path,
\* confidence=locator.confidence) run to its end by the loop of
\* find_elements: recognition.templates.find reads template.size of the
\* path it is given
image_matches(locator, coefficients, tie) ==
    LET path == locator.fields["path"]
        confidence == locator.fields["confidence"]
        c == clamp(hundredths(confidence))
        cells == Len(coefficients) * Len(coefficients[1])
        regions == recognition_yields(coefficients, c, path[2].size, tie, cells)
    IN IF confidence[1] \notin {"float", "int"}
       THEN [ret |-> Raise("TypeError", "min(confidence, 1.00)", {}), matches |-> <<>>]
       ELSE IF path[1] # "Image"
       THEN [ret |-> Raise("AttributeError", "object has no attribute 'size'", {}),
             matches |-> <<>>]
       ELSE IF recognition_endless(coefficients, c, path[2].size, tie)
       THEN [ret |-> Diverges, matches |-> <<>>]
       ELSE [ret |-> NoCall,
             matches |-> [i \in 1..Len(regions) |-> <<"Region", regions[i]>>]]

\* the locator a string stands for: Locator.from_string(locator)
parse_locator(locator) ==
    IF locator[1] = "str" THEN from_string(locator[2]) ELSE Return(locator[2])

\* Desktop.find, the search with the locator parsed: the error, if any, and
\* the locations
search(parsed, has_recognition, mouse, coefficients, tie) ==
    IF parsed.kind = "raise"
    THEN [ret |-> parsed, matches |-> <<>>]
    ELSE CASE parsed.value.class = "Coordinates" ->
                [ret |-> NoCall,
                 matches |-> <<<<"Point", Point(parsed.value.fields["x"][2],
                                                parsed.value.fields["y"][2])>>>>]
           [] parsed.value.class = "Offset" ->
                \* position = self.get_mouse_position()
                \* position.offset(locator.x, locator.y): the value of the
                \* call is dropped
                \* return [position]
                LET position == mouse
                    dropped == Point_offset(position, parsed.value.fields["x"][2],
                                            parsed.value.fields["y"][2])
                IN [ret |-> NoCall, matches |-> <<<<"Point", position>>>>]
           [] parsed.value.class = "ImageTemplate" ->
                IF ~has_recognition
                THEN [ret |-> Raise("ValueError", "Image templates not supported", {}),
                      matches |-> <<>>]
                ELSE image_matches(parsed.value, coefficients, tie)
           [] OTHER ->
                [ret |-> Raise("NotImplementedError", "Unsupported locator", {}),
                 matches |-> <<>>]

\* Desktop.find(locator)
Desktop_find(locator, has_recognition, mouse, coefficients, tie) ==
    IF locator[1] \in {"Region", "Point"}
    THEN [ret |-> NoCall, matches |-> <<locator>>]
    ELSE search(parse_locator(locator), has_recognition, mouse, coefficients, tie)

\* the loop of find_elements: the centre of every region found, every point
\* as it is
positions(found) ==
    IF found.ret # NoCall THEN found.ret
    ELSE Return([i \in 1..Len(found.matches) |->
                   IF found.matches[i][1] = "Region"
                   THEN Region_center(found.matches[i][2])
                   ELSE found.matches[i][2]])

\* Desktop.find_elements(locator)
find_elements(locator, has_recognition, mouse, coefficients, tie) ==
    positions(Desktop_find(locator, has_recognition, mouse, coefficients, tie))

\* find_element: the tests of the list of positions
the_match(matches) ==
    IF matches.kind # "return" THEN matches
    ELSE IF matches.value = <<>>
    THEN Raise("ValueError", "No matches found", {})
    ELSE IF Len(matches.value) > 1
    THEN Raise("ValueError", "Found matches", {Len(matches.value)})
    ELSE Return(matches.value[1])

\* Desktop.find_element(locator)
find_element(locator, has_recognition, mouse, coefficients, tie) ==
    the_match(find_elements(locator, has_recognition, mouse, coefficients, tie))

\* the locators waited for
S_a_b == <<"a", ",", "b">>

ImageLocators ==
    {Instance("ImageTemplate",
              [n \in {"path", "confidence"} |->
                  IF n = "path"
                  THEN <<"Image", Image(size[1], size[2],
                                        [i \in 1..(size[1] * size[2]) |-> Black])>>
                  ELSE confidence]) :
        size \in TemplateSizes, confidence \in {PyFloat(100, 0), PyFloat(5, 1)}}

WaitLocators ==
    {PyStr(XYText(S_coordinates, 3, 4)), PyStr(XYText(S_offset, 1, 2)),
     PyStr(S_image \o <<":">> \o S_a_png), PyStr(S_browser \o <<":">> \o S_a_b),
     PyStr(S_bogus \o <<":", "1">>), PyStr(S_coordinates \o <<":", "a", ",", "2">>),
     PyStr(S_coordinates \o <<":", "1">>),
     <<"Region", Region(0, 0, 4, 2)>>, <<"Point", Point(5, 6)>>}
    \cup {<<"Locator", l>> : l \in ImageLocators}

\* the attempt asks for the mouse position
NeedsMouse(locator) == locator = PyStr(XYText(S_offset, 1, 2))

\* the attempt looks at the screen
NeedsScreen(locator) == locator[1] = "Locator"

\* what the engine computes for the screen of an attempt: one row of
\* placements
ScreenMaps == {m \in MapsOver({0, 100}, MaxMapArea) : Len(m) = 1}

MousePositions == {Point(0, 0), Point(2, 3)}

\* wait_for_element(locator, timeout, interval): the deadline is set
WaitForElement(locator, timeout, interval, has_recognition, tie) ==
    /\ op = "idle"
    /\ op' = "wait_for_element"
    /\ arg' = [locator |-> locator, timeout |-> timeout, interval |-> interval]
    /\ frame' = [pc |-> "while", interval |-> interval,
                 end_time |-> clock + timeout, attempts |-> <<>>,
                 has_recognition |-> has_recognition, tie |-> tie]
    /\ ret' = NoCall
    /\ UNCHANGED <<data, self, engine, clock>>

\* while time.time() <= end_time: ... else raise TimeoutException
While ==
    /\ op = "wait_for_element"
    /\ frame.pc = "while"
    /\ IF clock <= frame.end_time
       THEN /\ frame' = [frame EXCEPT !.pc = "try"]
            /\ UNCHANGED ret
       ELSE /\ frame' = [frame EXCEPT !.pc = "done"]
            /\ ret' = Raise("TimeoutException", "No element found within timeout", {})
    /\ UNCHANGED <<op, arg, data, self, engine, clock>>

\* where the loop goes after an attempt: the return and every error but a
\* ValueError end the call, a ValueError is followed by the sleep, and an
\* attempt that does not come back leaves the call hanging
after_attempt(outcome) ==
    IF outcome.kind = "diverges" THEN "hung"
    ELSE IF outcome.kind = "raise" /\ is_ValueError(outcome.error) THEN "sleep"
    ELSE "done"

\* try: return self.find_element(locator) / except ValueError; the attempt
\* takes `took` ticks
Try(mouse, coefficients, took) ==
    /\ op = "wait_for_element"
    /\ frame.pc = "try"
    /\ \E outcome \in {find_element(arg.locator, frame.has_recognition, mouse,
                                    coefficients, frame.tie)} :
          /\ clock' = clock + took
          /\ frame' = [frame EXCEPT
                          !.pc = after_attempt(outcome),
                          !.attempts = Append(frame.attempts,
                                              [at |-> clock, outcome |-> outcome])]
          /\ ret' = IF after_attempt(outcome) = "done" THEN outcome ELSE ret
    /\ UNCHANGED <<op, arg, data, self, engine>>

\* time.sleep(interval)
Sleep ==
    /\ op = "wait_for_element"
    /\ frame.pc = "sleep"
    /\ clock' = clock + frame.interval
    /\ frame' = [frame EXCEPT !.pc = "while"]
    /\ UNCHANGED <<op, arg, data, self, ret, engine>>

NextDesktop ==
    \/ Idle /\ \E locator \in WaitLocators, timeout \in (0 - 1)..MaxTimeout :
                  \E interval \in 1..MaxInterval, has_recognition \in BOOLEAN :
                     \E tie \in Ties :
                        WaitForElement(locator, timeout, interval,
                                       has_recognition, tie)
    \/ While
    \/ /\ op = "wait_for_element"
       /\ frame.pc = "try"
       /\ \E took \in 0..1 :
             \E mouse \in IF NeedsMouse(arg.locator) THEN MousePositions
                           ELSE {Point(0, 0)} :
                \E coefficients \in IF NeedsScreen(arg.locator) THEN ScreenMaps
                                    ELSE {<<<<0>>>>} :
                   Try(mouse, coefficients, took)
    \/ Sleep

SpecDesktop == Init /\ [][NextDesktop]_vars

(***************************************************************************)
(* Desktop.find called on its own with locators that need no screen.  The  *)
(* mouse is the environment's: arg holds where it is when find is called,  *)
(* frame where it is when find returns.                                    *)
(***************************************************************************)
MouseRange == 0..MaxMouse

OffsetRange == (0 - MaxMouse)..MaxMouse

\* coordinates and offsets, as strings and as locator instances
PointLocators ==
    UNION {{PyStr(XYText(t, x, y)),
            <<"Locator", from_string(XYText(t, x, y)).value>>} :
              t \in {S_coordinates, S_offset}, x \in OffsetRange, y \in OffsetRange}

\* Desktop.find(locator) with the mouse at `mouse`
DesktopFind(locator, mouse) ==
    /\ op = "idle"
    /\ op' = "Desktop.find"
    /\ arg' = [locator |-> locator, mouse |-> mouse]
    /\ \E found \in {Desktop_find(locator, FALSE, mouse, <<<<0>>>>, "first")} :
          ret' = IF found.ret # NoCall THEN found.ret ELSE Return(found.matches)
    /\ frame' = [mouse |-> mouse]
    /\ UNCHANGED <<data, self, engine, clock>>

NextDesktopFind ==
    Idle /\ \E locator \in PointLocators, x \in MouseRange, y \in MouseRange :
               DesktopFind(locator, Point(x, y))

SpecDesktopFind == Init /\ [][NextDesktopFind]_vars

(***************************************************************************)
(* RPA.Desktop.new_implementations.locator_helpers:                        *)
(* determine_search_criteria.  The pair it returns is                      *)
(* <<"tuple", search_criteria, locator>>.                                  *)
(***************************************************************************)
\* locator.startswith(prefix), and with a tuple of prefixes
startswith(locator, prefixes) ==
    \E prefix \in prefixes :
        /\ Len(prefix) <= Len(locator)
        /\ SubSeq(locator, 1, Len(prefix)) = prefix

\* _, locator = locator.split(":", 1), for a locator that holds a colon
after_colon(locator) == Partition(locator, ":")[3]

\* the if-chain: the local variables when it is left, and whether the
\* return statement, which stands in the else branch, was reached
criteria_chain(locator) ==
    IF startswith(locator, {<<"n", "a", "m", "e", ":">>})
    THEN [search_criteria |-> "name", locator |-> after_colon(locator),
          returned |-> FALSE]
    ELSE IF startswith(locator, {<<"c", "l", "a", "s", "s", "_", "n", "a", "m", "e", ":">>, <<"c", "l", "a", "s", "s", ":">>})
    THEN [search_criteria |-> "class_name", locator |-> after_colon(locator),
          returned |-> FALSE]
    ELSE IF startswith(locator, {<<"c", "o", "n", "t", "r", "o", "l", "_", "t", "y", "p", "e", ":">>,
                                 <<"t", "y", "p", "e", ":">>})
    THEN [search_criteria |-> "control_type", locator |-> after_colon(locator),
          returned |-> FALSE]
    ELSE IF startswith(locator, {<<"a", "u", "t", "o", "m", "a", "t", "i", "o", "n", "_", "i", "d", ":">>,
                                 <<"i", "d", ":">>})
    THEN [search_criteria |-> "automation_id", locator |-> after_colon(locator),
          returned |-> FALSE]
    ELSE IF startswith(locator, {<<"p", "a", "r", "t", "i", "a", "l", " ", "n", "a", "m", "e", ":">>})
    THEN [search_criteria |-> "partial name", locator |-> after_colon(locator),
          returned |-> FALSE]
    ELSE IF startswith(locator, {<<"r", "e", "g", "e", "x", "p", ":">>})
    THEN [search_criteria |-> "regexp", locator |-> after_colon(locator),
          returned |-> FALSE]
    ELSE [search_criteria |-> "any", locator |-> locator, returned |-> TRUE]

\* determine_search_criteria(locator): a function left without a return
\* statement returns None
determine_search_criteria(locator) ==
    LET left == criteria_chain(locator)
    IN IF left.returned
       THEN Return(<<"tuple", left.search_criteria, left.locator>>)
       ELSE Return(PyNone)

\* the beginnings of the locators given: every prefix of the chain, and
\* beginnings that are none
CriteriaHeads ==
    {<<"n", "a", "m", "e", ":">>,
     <<"c", "l", "a", "s", "s", "_", "n", "a", "m", "e", ":">>,
     <<"c", "l", "a", "s", "s", ":">>,
     <<"c", "o", "n", "t", "r", "o", "l", "_", "t", "y", "p", "e", ":">>,
     <<"t", "y", "p", "e", ":">>,
     <<"a", "u", "t", "o", "m", "a", "t", "i", "o", "n", "_", "i", "d", ":">>,
     <<"i", "d", ":">>,
     <<"p", "a", "r", "t", "i", "a", "l", " ", "n", "a", "m", "e", ":">>,
     <<"r", "e", "g", "e", "x", "p", ":">>,
     <<>>,
     <<"a", "l", "i", "a", "s", ":">>,
     <<"N", "a", "m", "e", ":">>,
     <<"n", "a", "m", "e", "s">>,
     <<"n", "a", "m", "e">>,
     <<"r", "e", "g", "e", "x", "p">>}

CriteriaTails == UNION {[1..n -> {"a", ":"}] : n \in 0..MaxTail}

\* determine_search_criteria(locator)
DetermineSearchCriteria(locator) ==
    /\ op = "idle"
    /\ op' = "determine_search_criteria"
    /\ arg' = locator
    /\ ret' = determine_search_criteria(locator)
    /\ UNCHANGED <<data, self, engine, clock, frame>>

NextCriteria ==
    Idle /\ \E head \in CriteriaHeads, tail \in CriteriaTails :
               DetermineSearchCriteria(head \o tail)

SpecCriteria == Init /\ [][NextCriteria]_vars

(***************************************************************************)
(* RPA.Images: find_template_on_screen and the polling loop                *)
(* wait_template_on_screen.  The clock ticks every 0.1 s, the time of the  *)
(* sleep between two attempts, and `timeout` is counted in ticks.  The     *)
(* screenshot of an attempt is the environment's.                          *)
(***************************************************************************)
\* find_template_on_screen(template, region, limit, tolerance) in the build
\* without RPA.recognition: templates.find on the screenshot
find_template_on_screen(screen, template, region, limit, tolerance) ==
    find(screen, template, region, limit, tolerance).ret

\* the same in the build with RPA.recognition, where matchTemplate is the
\* map computed for the screenshot
find_template_on_screen_recognition(screen, template, region, limit, tolerance, matchTemplate, tie) ==
    find_recognition(screen, template, region, limit, tolerance, matchTemplate,
                     tie).ret

\* where the loop goes after an attempt: ImageNotFoundError is followed by
\* the sleep, the return and every other error end the call
after_template_attempt(outcome) ==
    IF outcome.kind = "diverges" THEN "hung"
    ELSE IF outcome.kind = "raise" /\ outcome.error = "ImageNotFoundError"
    THEN "sleep"
    ELSE "done"

\* the screens of the attempts and the templates waited for
Screens == ImagesOver(FindPalette, MaxScreenArea)

WaitTemplates == {Image(1, 1, <<Black>>), Image(1, 1, <<White>>)}

\* wait_template_on_screen(template, timeout, **kwargs): start_time is read
WaitTemplateOnScreen(template, timeout, limit, tolerance, has_recognition, tie) ==
    /\ op = "idle"
    /\ op' = "wait_template_on_screen"
    /\ arg' = [template |-> template, timeout |-> timeout, region |-> None,
               limit |-> limit, tolerance |-> tolerance]
    /\ frame' = [pc |-> "while", start_time |-> clock, attempts |-> <<>>,
                 has_recognition |-> has_recognition, tie |-> tie]
    /\ ret' = NoCall
    /\ UNCHANGED <<data, self, engine, clock>>

\* while time.time() - start_time > timeout
loop_test(now, start_time, timeout) == now - start_time > timeout

\* the test of the loop; when it fails the function ends and returns None
ImagesWhile ==
    /\ op = "wait_template_on_screen"
    /\ frame.pc = "while"
    /\ IF loop_test(clock, frame.start_time, arg.timeout)
       THEN /\ frame' = [frame EXCEPT !.pc = "try"]
            /\ UNCHANGED ret
       ELSE /\ frame' = [frame EXCEPT !.pc = "done"]
            /\ ret' = Return(PyNone)
    /\ UNCHANGED <<op, arg, data, self, engine, clock>>

\* try: return self.find_template_on_screen(template, **kwargs)
\* except templates.ImageNotFoundError; the attempt takes `took` ticks
ImagesTry(outcome, took) ==
    /\ op = "wait_template_on_screen"
    /\ frame.pc = "try"
    /\ Len(frame.attempts) < MaxAttempts
    /\ clock' = clock + took
    /\ frame' = [frame EXCEPT
                    !.pc = after_template_attempt(outcome),
                    !.attempts = Append(frame.attempts,
                                        [at |-> clock, outcome |-> outcome])]
    /\ ret' = IF after_template_attempt(outcome) = "done" THEN outcome ELSE ret
    /\ UNCHANGED <<op, arg, data, self, engine>>

\* time.sleep(0.1)
ImagesSleep ==
    /\ op = "wait_template_on_screen"
    /\ frame.pc = "sleep"
    /\ clock' = clock + 1
    /\ frame' = [frame EXCEPT !.pc = "while"]
    /\ UNCHANGED <<op, arg, data, self, ret, engine>>

\* the outcomes an attempt can have, over the screens of the environment
AttemptOutcomes ==
    IF frame.has_recognition
    THEN UNION {{find_template_on_screen_recognition(screen, arg.template,
                                                     arg.region, arg.limit,
                                                     arg.tolerance, matchTemplate,
                                                     frame.tie) :
                    matchTemplate \in MapsFor(screen, arg.template)} :
                screen \in Screens}
    ELSE {find_template_on_screen(screen, arg.template, arg.region, arg.limit,
                                  arg.tolerance) : screen \in Screens}

NextImages ==
    \/ Idle /\ \E template \in WaitTemplates, timeout \in (0 - 1)..MaxTimeout :
                  \E limit \in {None, Some(1)}, tolerance \in {None, Some(95)} :
                     \E has_recognition \in BOOLEAN, tie \in Ties :
                        WaitTemplateOnScreen(template, timeout, limit, tolerance,
                                             has_recognition, tie)
    \/ ImagesWhile
    \/ /\ op = "wait_template_on_screen"
       /\ frame.pc = "try"
       /\ \E took \in 0..1 : \E outcome \in AttemptOutcomes :
             ImagesTry(outcome, took)
    \/ ImagesSleep

SpecImages == Init /\ [][NextImages]_vars

(***************************************************************************)
(* The template search.                                                    *)
(***************************************************************************)
\* the pixel of an image at column x, row y (both from 0)
PixelAt(image, x, y) == image.data[y * image.size[1] + x + 1]

\* the positions at which the haystack holds a pixel-for-pixel copy of the
\* template
Occurrences(image, template) ==
    {q \in (0..(image.size[1] - template.size[1]))
             \X (0..(image.size[2] - template.size[2])) :
        \A i \in 0..(template.size[1] - 1), j \in 0..(template.size[2] - 1) :
            PixelAt(image, q[1] + i, q[2] + j) = PixelAt(template, i, j)}

\* C7: when the haystack holds exactly one pixel-for-pixel copy of the
\* template, at (x0, y0), _fallback yields the one region
\* {x0, y0, x0 + template_width, y0 + template_height} and no other.
ExactMatchDeterminism ==
    op = "_fallback"
        => \A q \in Occurrences(arg.image, arg.template) :
              Occurrences(arg.image, arg.template) = {q}
                 => ret.value = <<[left |-> q[1], top |-> q[2],
                                   right |-> q[1] + arg.template.size[1],
                                   bottom |-> q[2] + arg.template.size[2]]>>

SearchArea ==
    IF arg.region = None THEN arg.image.size
    ELSE <<arg.region[1].right - arg.region[1].left,
           arg.region[1].bottom - arg.region[1].top>>

TemplateExceedsArea ==
    \/ arg.template.size[1] > SearchArea[1]
    \/ arg.template.size[2] > SearchArea[2]

\* C9: a template wider or taller than the search area makes find fail
\* with the template-larger-than-search-region error before the engine is
\* invoked, never with ImageNotFoundError.
BoundsViolation ==
    (op = "find" /\ TemplateExceedsArea)
        => /\ ret.kind = "raise"
           /\ ret.error = "ValueError"
           /\ ret.msg = "Template is larger than search region"
           /\ ~engine.invoked

BoundsViolationWitness ==
    /\ op = "find"
    /\ arg.region # None
    /\ arg.template.size[1] <= arg.image.size[1]
    /\ arg.template.size[2] <= arg.image.size[2]
    /\ arg.template.size[1] > SearchArea[1]
    /\ arg.template.size[2] <= SearchArea[2]
    /\ ret.error = "ValueError"

\* C10: find never returns an empty list; it raises ImageNotFoundError
\* exactly when the engine, invoked on the searched image, yields nothing,
\* and returns a non-empty list whenever the engine yields a region.
EmptyResult ==
    op = "find"
        => /\ ret.kind = "return" => ret.value # <<>>
           /\ ret.error = "ImageNotFoundError" => engine.invoked
           /\ engine.invoked
                => LET yielded == func(engine.searched, arg.template, arg.confidence)
                   IN /\ yielded = <<>> <=> ret.error = "ImageNotFoundError"
                      /\ yielded # <<>> <=> ret.kind = "return"

EmptyResultWitness ==
    /\ op = "find"
    /\ engine.invoked
    /\ arg.region # None
    /\ ret.kind = "raise"
    /\ ret.error = "ImageNotFoundError"

\* the first n elements of a sequence, all of it when it is shorter
Prefix(seq, n) == SubSeq(seq, 1, Min(n, Len(seq)))

\* C11: with a positive limit k, when the engine would yield n regions for
\* the searched image, find collects exactly the first min(k, n) of them in
\* the engine's order and returns that many; with limit 1 and three regions
\* to yield it returns only the first.
LimitEnforcement ==
    (op = "find" /\ engine.invoked /\ arg.limit # None /\ arg.limit[1] >= 1)
        => LET yielded == func(engine.searched, arg.template, arg.confidence)
               k == arg.limit[1]
           IN /\ engine.matches = Prefix(yielded, k)
              /\ Len(engine.matches) = Min(k, Len(yielded))
              /\ ret.kind = "return" => Len(ret.value) = Min(k, Len(yielded))
              /\ (k = 1 /\ Len(yielded) = 3)
                    => (ret.kind = "return" /\ Len(ret.value) = 1
                        /\ engine.matches = <<yielded[1]>>)

LimitEnforcementWitness ==
    /\ op = "find"
    /\ engine.invoked
    /\ arg.limit = Some(1)
    /\ Len(func(engine.searched, arg.template, arg.confidence)) = 3
    /\ ret.kind = "return"
    /\ Len(ret.value) = 1

\* (top, left) of a comes before (top, left) of b
ScanBefore(a, b) == a.top < b.top \/ (a.top = b.top /\ a.left < b.left)

\* C20: the regions _fallback yields are in strictly increasing order of
\* (top, left): top to bottom, left to right within a row, and no position
\* twice.
BruteForceOrdering ==
    op = "_fallback"
        => \A i \in 1..Len(ret.value), j \in 1..Len(ret.value) :
              i < j => ScanBefore(ret.value[i], ret.value[j])

BruteForceOrderingWitness ==
    /\ op = "_fallback"
    /\ Len(ret.value) >= 3
    /\ ret.value[1].top < ret.value[2].top
    /\ ret.value[2].top < ret.value[3].top

(***************************************************************************)
(* The accelerated engine.                                                 *)
(***************************************************************************)
\* next() has just yielded a region
Yields ==
    /\ op = "recognition.find"
    /\ Len(engine'.yielded) = Len(engine.yielded) + 1

\* the maximum next() finds in the map it is resumed with
Found == minMaxLoc(frame.coefficients, frame.tie)

\* C16, as the specification words it: for the maximum at (x, y) the region
\* yielded is Region.from_size(x - template_width/2, y - template_height/2,
\* template_width, template_height).
MatchPlacementCentred ==
    [][Yields => /\ 2 * ret'.value.left = 2 * Found.match_x - arg.template_size[1]
                 /\ 2 * ret'.value.top = 2 * Found.match_y - arg.template_size[2]
                 /\ ret'.value.right - ret'.value.left = arg.template_size[1]
                 /\ ret'.value.bottom - ret'.value.top = arg.template_size[2]]_vars

\* C16: for the maximum at (x, y) the region yielded is
\* Region.from_size(x, y, template_width, template_height): the map position
\* is the region's top-left corner.
MatchPlacement ==
    [][Yields => /\ ret'.value.left = Found.match_x
                 /\ ret'.value.top = Found.match_y
                 /\ ret'.value.right = Found.match_x + arg.template_size[1]
                 /\ ret'.value.bottom = Found.match_y + arg.template_size[2]
                 /\ engine'.yielded = Append(engine.yielded, ret'.value)]_vars

MatchPlacementWitness ==
    /\ op = "recognition.find"
    /\ ret.kind = "return"
    /\ Len(arg.coefficients) = 1
    /\ Len(arg.coefficients[1]) = 3
    /\ arg.coefficients[1] = <<0, 60, 100>>
    /\ arg.template_size = <<2, 1>>
    /\ ret.value = [left |-> 2, top |-> 0, right |-> 4, bottom |-> 1]

Abs(n) == IF n < 0 THEN 0 - n ELSE n

\* C17: no two regions yielded by one run are closer than half the template:
\* they differ by at least template_width/2 horizontally or by at least
\* template_height/2 vertically, so no position is yielded twice.
NonOverlap ==
    op = "recognition.find"
        => \A i \in 1..Len(engine.yielded), j \in 1..Len(engine.yielded) :
              i < j
                => \/ 2 * Abs(engine.yielded[i].left - engine.yielded[j].left)
                         >= arg.template_size[1]
                   \/ 2 * Abs(engine.yielded[i].top - engine.yielded[j].top)
                         >= arg.template_size[2]

\* a is the beginning of b
IsPrefix(a, b) == Len(a) <= Len(b) /\ a = SubSeq(b, 1, Len(a))

\* the run is over, or as many regions were taken as are ever taken
RunOver ==
    /\ op = "recognition.find"
    /\ arg.confidence # None
    /\ frame.pc = "ended" \/ Len(engine.yielded) = MaxYields

\* the regions of a run on the same map and template with confidence c
RunWith(c) ==
    recognition_yields(arg.coefficients, clamp(c), arg.template_size, frame.tie,
                       MaxYields)

\* C18: on the same map and template a run with a confidence at least as
\* high yields a beginning of this run's regions, and a run with a
\* confidence at most as high yields a sequence this run's regions begin.
ConfidenceMonotonicity ==
    RunOver
        => \A c \in {x[1] : x \in Confidences \ {None}} :
              LET other == RunWith(c)
              IN /\ arg.confidence[1] <= c => IsPrefix(other, engine.yielded)
                 /\ c <= arg.confidence[1] => IsPrefix(engine.yielded, other)

ConfidenceMonotonicityWitness ==
    /\ RunOver
    /\ frame.pc = "ended"
    /\ arg.confidence = Some(50)
    /\ Len(engine.yielded) = 2
    /\ Len(RunWith(DEFAULT_CONFIDENCE)) = 1
    /\ Len(RunWith(150)) = 1

\* C19: every region is yielded for the strongest coefficient left in the
\* map, which is at least the clamped confidence and at most the
\* coefficient of the region yielded before it.
AcceleratedOrdering ==
    [][Yields
        => LET coeff == frame.coefficients[ret'.value.top + 1][ret'.value.left + 1]
           IN /\ coeff >= clamp(arg.confidence[1])
              /\ \A y \in 1..Len(frame.coefficients) :
                    \A x \in 1..Len(frame.coefficients[y]) :
                       frame.coefficients[y][x] <= coeff
              /\ engine'.match_coeffs = Append(engine.match_coeffs, coeff)
              /\ \A i \in 1..Len(engine.match_coeffs) :
                    engine.match_coeffs[i] >= coeff]_vars

AcceleratedOrderingWitness ==
    /\ op = "recognition.find"
    /\ arg.confidence = Some(50)
    /\ engine.match_coeffs = <<100, 60>>
    /\ frame.pc = "ended"

(***************************************************************************)
(* find without a confidence.                                              *)
(***************************************************************************)
\* C12: find called without a confidence, for a template that fits the
\* searched area, runs the accelerated engine with its default 0.95 and ends
\* with matches or with ImageNotFoundError, with no other error.
DefaultConfidence ==
    (op = "find" /\ arg.confidence = None /\ engine.invoked)
        => /\ ret.kind = "return" \/ ret.error = "ImageNotFoundError"
           /\ LET yielded == recognition_yields(engine.coefficients,
                                                DEFAULT_CONFIDENCE,
                                                arg.template.size, frame.tie,
                                                MaxFindYields)
              IN /\ ret.kind = "return" => IsPrefix(engine.matches, yielded)
                 /\ ret.error = "ImageNotFoundError" => yielded = <<>>

(***************************************************************************)
(* The polling loop of Desktop.                                            *)
(***************************************************************************)
\* the not-found outcome of an attempt
NotFound(outcome) ==
    /\ outcome.kind = "raise"
    /\ outcome.error = "ValueError"
    /\ outcome.msg = "No matches found"

\* C13: wait_for_element retries only after an attempt that found nothing;
\* an attempt that raises any other error (unknown locator type, malformed
\* locator string, ...) is the last one, and its error is the outcome of the
\* call.
PollingErrorPolicy ==
    op = "wait_for_element"
        => \A i \in 1..Len(frame.attempts) :
              LET outcome == frame.attempts[i].outcome
              IN (outcome.kind = "raise" /\ ~NotFound(outcome))
                    => /\ i = Len(frame.attempts)
                       /\ frame.pc = "done"
                       /\ ret = outcome

\* C14: wait_for_element ends, and ends in one of two ways: it returns the
\* position of the first attempt that succeeded, or it raises
\* TimeoutException after the deadline has passed and no attempt succeeded;
\* consecutive attempts are at least `interval` apart.
PollingOutcome ==
    op = "wait_for_element"
        => /\ frame.pc # "hung"
           /\ \A i \in 1..(Len(frame.attempts) - 1) :
                 /\ frame.attempts[i].outcome.kind # "return"
                 /\ frame.attempts[i + 1].at >= frame.attempts[i].at + frame.interval
           /\ frame.pc = "done"
                 => \/ /\ ret.kind = "return"
                       /\ frame.attempts # <<>>
                       /\ ret = frame.attempts[Len(frame.attempts)].outcome
                    \/ /\ ret.kind = "raise"
                       /\ ret.error = "TimeoutException"
                       /\ clock > frame.end_time
                       /\ \A i \in 1..Len(frame.attempts) :
                             frame.attempts[i].outcome.kind # "return"

(***************************************************************************)
(* The polling loop of Images.                                             *)
(***************************************************************************)
\* C15: with a positive timeout wait_template_on_screen does not end before
\* an attempt has succeeded or `timeout` has elapsed: when it ends before
\* that time it returns the regions of its first successful attempt.
WaitTemplate ==
    (op = "wait_template_on_screen" /\ arg.timeout > 0 /\ frame.pc = "done"
        /\ clock - frame.start_time < arg.timeout)
        => /\ frame.attempts # <<>>
           /\ ret = frame.attempts[Len(frame.attempts)].outcome
           /\ ret.kind = "return" => ret.value # <<>>
           /\ \A i \in 1..(Len(frame.attempts) - 1) :
                 frame.attempts[i].outcome.kind # "return"

(***************************************************************************)
(* The rows of the brute-force search.                                     *)
(***************************************************************************)
\* the grey level the search compares, of the pixel at column x, row y
GreyAt(image, x, y) == luma(PixelAt(image, x, y))

\* the haystack holds the whole template, grey level by grey level, with
\* its top-left corner at (x, y)
TrueOccurrence(image, template, x, y) ==
    /\ x + template.size[1] <= image.size[1]
    /\ y + template.size[2] <= image.size[2]
    /\ \A k \in 0..(template.size[2] - 1), i \in 0..(template.size[1] - 1) :
          GreyAt(image, x + i, y + k) = GreyAt(template, i, k)

\* C21: every region _fallback yields is an exact occurrence of the whole
\* template: haystack row y + k equals template row k at columns
\* x .. x + template_width - 1, for every template row k.
RowVerification ==
    op = "_fallback"
        => \A i \in 1..Len(ret.value) :
              TrueOccurrence(arg.image, arg.template, ret.value[i].left,
                             ret.value[i].top)

\* the rows of the template are all the same
UniformRows(template) ==
    \A k \in 0..(template.size[2] - 1), i \in 0..(template.size[1] - 1) :
        GreyAt(template, i, k) = GreyAt(template, i, 0)

\* C22: every row y with 0 <= y <= haystack_height - template_height is a
\* candidate top row: an exact occurrence there is yielded, also when its
\* bottom edge is the haystack's (the template's rows being alike, the
\* check of the rows after the first cannot turn it down).
RowScanCoverage ==
    op = "_fallback"
        => \A x \in 0..(arg.image.size[1] - arg.template.size[1]) :
              \A y \in 0..(arg.image.size[2] - arg.template.size[2]) :
                 (/\ TrueOccurrence(arg.image, arg.template, x, y)
                  /\ UniformRows(arg.template))
                    => \E i \in 1..Len(ret.value) :
                          /\ ret.value[i].left = x
                          /\ ret.value[i].top = y

(***************************************************************************)
(* The string search.                                                      *)
(***************************************************************************)
\* the indices i with text[i : i + len(pattern)] = pattern
OccursAt(text, pattern) ==
    {i \in 0..(Len(text) - Len(pattern)) :
        SubSeq(text, i + 1, i + Len(pattern)) = pattern}

\* C23: for a non-empty pattern _search_string yields, in strictly
\* increasing order, exactly the indices at which the pattern occurs in the
\* text, overlapping occurrences included, and no index past
\* len(text) - len(pattern).
KMPSearch ==
    op = "_search_string"
        => /\ ret.kind = "return"
           /\ \A i \in 1..(Len(ret.value) - 1) : ret.value[i] < ret.value[i + 1]
           /\ {ret.value[i] : i \in 1..Len(ret.value)}
                 = OccursAt(arg.text, arg.pattern)
           /\ \A i \in 1..Len(ret.value) :
                 ret.value[i] + Len(arg.pattern) <= Len(arg.text)

\* overlapping occurrences of a pattern that is its own border
KMPSearchWitness ==
    /\ op = "_search_string"
    /\ Len(arg.pattern) = 3
    /\ arg.pattern[1] # arg.pattern[2]
    /\ ret.value = <<0, 2>>

(***************************************************************************)
(* The driver and the generator of the accelerated engine.                 *)
(***************************************************************************)
\* find ran the engine with a number for confidence and the limit k >= 1.
LimitedRun(k) ==
    /\ op = "find"
    /\ engine.invoked
    /\ arg.confidence # None
    /\ arg.limit = Some(k)

\* left to itself the generator of this call yields n regions or more
CanYield(n) ==
    Len(recognition_yields(engine.coefficients, clamp(arg.confidence[1]),
                           arg.template.size, frame.tie, n)) = n

\* C24: with a limit k >= 1 and an engine that can yield more than k
\* regions, the loop of _find resumes the generator k times and no more:
\* it leaves with the k-th region, and the turn that would look for region
\* k + 1 never runs.
LazyTermination ==
    \A k \in 1..MaxLimit :
        (LimitedRun(k) /\ CanYield(k + 1))
            => /\ engine.resumed = Some(k)
               /\ Len(engine.matches) = k
               /\ ret.kind = "return"

LazyTerminationWitness ==
    /\ LimitedRun(2)
    /\ CanYield(3)
    /\ engine.resumed = Some(2)
    /\ Len(ret.value) = 2

\* C25: consumed without a limit, the generator of the accelerated engine
\* yields finitely many regions and stops, whatever the map, the size of
\* the template, the place of the maximum and the confidence: the call of
\* find comes back.
AcceleratedTermination ==
    (op = "find" /\ engine.invoked /\ arg.limit = None /\ arg.confidence # None)
        => /\ ret.kind # "diverges"
           /\ engine.resumed # None

(***************************************************************************)
(* The confidence of the accelerated engine.                               *)
(***************************************************************************)
\* c brought into 0.01 .. 1.00, in hundredths
WithinUnit(c) == IF c > 100 THEN 100 ELSE IF c < 1 THEN 1 ELSE c

\* an ImageTemplate made of a template image alone: the confidence is the
\* default of the class
DefaultImageLocator(template_size) ==
    init_args("ImageTemplate",
              <<<<"Image", Image(template_size[1], template_size[2],
                                 [i \in 1..(template_size[1] * template_size[2]) |->
                                     Black])>>>>).value

\* C26: the engine given the confidence c runs as the loop runs for the
\* confidence max(0.01, min(c, 1.00)): every next() ends the generator or
\* yields as a turn of the loop with that confidence does; and where that
\* is 1.00, the generator ends having yielded the regions Desktop.find
\* gets for an ImageTemplate of the default confidence 100.0.
ConfidenceClamping ==
    [][(op = "recognition.find" /\ arg.confidence # None)
        => LET turn == recognition_turn(frame.coefficients,
                                        WithinUnit(arg.confidence[1]),
                                        arg.template_size, frame.tie)
           IN /\ turn.ended
                    => /\ frame'.pc = "ended"
                       /\ engine' = engine
              /\ ~turn.ended
                    => /\ ret' = Return(turn.region)
                       /\ frame'.coefficients = turn.coefficients
              /\ (frame'.pc = "ended" /\ WithinUnit(arg.confidence[1]) = 100)
                    => LET found ==
                               image_matches(DefaultImageLocator(arg.template_size),
                                             arg.coefficients, frame.tie)
                       IN /\ found.ret = NoCall
                          /\ found.matches
                                = [i \in 1..Len(engine.yielded) |->
                                      <<"Region", engine.yielded[i]>>]]_vars

ConfidenceClampingWitness ==
    /\ RunOver
    /\ frame.pc = "ended"
    /\ arg.confidence = Some(150)
    /\ Len(engine.yielded) = 1
    /\ DefaultImageLocator(arg.template_size).fields["confidence"] = PyFloat(100, 0)

(***************************************************************************)
(* Desktop.find on coordinates and offsets.                                *)
(***************************************************************************)
\* the locator of the call, parsed
FoundLocator == parse_locator(arg.locator).value

\* C27: Desktop.find on an Offset locator (dx, dy) returns the one point
\* that is the mouse position moved by (dx, dy), on a Coordinates locator
\* (x, y) the one point (x, y), and leaves the mouse where it was.
OffsetResolution ==
    op = "Desktop.find"
        => /\ FoundLocator.class = "Offset"
                 => ret = Return(<<<<"Point",
                                     Point(arg.mouse.x + FoundLocator.fields["x"][2],
                                           arg.mouse.y + FoundLocator.fields["y"][2])>>>>)
           /\ FoundLocator.class = "Coordinates"
                 => ret = Return(<<<<"Point", Point(FoundLocator.fields["x"][2],
                                                    FoundLocator.fields["y"][2])>>>>)
           /\ frame.mouse = arg.mouse

(***************************************************************************)
(* What from_dict does to the record it is given.                          *)
(***************************************************************************)
\* the record without its `type` key
WithoutType(r) == [k \in DOMAIN r \ {"type"} |-> r[k]]

\* C28: from_dict leaves the record it was given without the `type` key
\* and otherwise as it was, whether it returns a locator or raises; a
\* second from_dict on the same record raises the missing-type error.
FromDictEffect ==
    op = "from_dict"
        => /\ data = WithoutType(arg.data)
           /\ arg.from = "from_dict"
                 => ret = Raise("ValueError", "Missing locator type field", {})

\* the second call on a record that holds three other keys
FromDictEffectWitness ==
    /\ op = "from_dict"
    /\ arg.from = "from_dict"
    /\ DOMAIN data = {"x", "y", "name"}
    /\ data = arg.data
    /\ ret.msg = "Missing locator type field"

(***************************************************************************)
(* The values of a locator string past the fields of its class.            *)
(***************************************************************************)
\* the class a locator string names, "None" when it names none
ClassOf(text) == TYPES_get(PyStr(TypePart(text)))

\* the string cut after the value of the last field of its class
WithoutTrailing(text) ==
    Partition(text, ":")[1] \o <<":">>
       \o Join(SubSeq(ValuesOf(text), 1, Len(fields(ClassOf(text)))), ",")

\* C29: values past the last declared field are not coerced and raise no
\* error: the string gives what it gives with them cut off, the same
\* locator or the same failure.
TrailingValues ==
    (/\ op = "from_string"
     /\ ClassOf(arg) # "None"
     /\ Len(ValuesOf(arg)) > Len(fields(ClassOf(arg))))
        => ret = from_string(WithoutTrailing(arg))

\* "coordinates:7,-5,a": the third value is no integer
TrailingValuesWitness ==
    /\ op = "from_string"
    /\ ClassOf(arg) = "Coordinates"
    /\ Len(ValuesOf(arg)) = 3
    /\ ~int(ValuesOf(arg)[3]).ok
    /\ ret = Return(Instance("Coordinates", XY(7, -5)))

(***************************************************************************)
(* The search criteria of a locator.                                       *)
(***************************************************************************)
\* the criteria the documentation gives for a locator, "any" where it
\* begins with no prefix
CriteriaFor(locator) ==
    LET head == Partition(locator, ":")[1]
        colon == Partition(locator, ":")[2] # <<>>
    IN CASE colon /\ head = <<"n", "a", "m", "e">> -> "name"
         [] colon /\ head \in {<<"c", "l", "a", "s", "s">>, <<"c", "l", "a", "s", "s", "_", "n", "a", "m", "e">>} -> "class_name"
         [] colon /\ head \in {<<"t", "y", "p", "e">>,
                               <<"c", "o", "n", "t", "r", "o", "l", "_", "t", "y", "p", "e">>} -> "control_type"
         [] colon /\ head \in {<<"i", "d">>,
                               <<"a", "u", "t", "o", "m", "a", "t", "i", "o", "n", "_", "i", "d">>} -> "automation_id"
         [] colon /\ head = <<"p", "a", "r", "t", "i", "a", "l", " ", "n", "a", "m", "e">> -> "partial name"
         [] colon /\ head = <<"r", "e", "g", "e", "x", "p">> -> "regexp"
         [] OTHER -> "any"

\* C30: determine_search_criteria returns a pair for every locator: the
\* criteria of its prefix and the text after the first colon, or "any" and
\* the locator as it is.
SearchCriteria ==
    op = "determine_search_criteria"
        => ret = Return(<<"tuple", CriteriaFor(arg),
                          IF CriteriaFor(arg) = "any" THEN arg
                          ELSE Partition(arg, ":")[3]>>)

=============================================================================
